---- MODULE Spec2Model ----
(***************************************************************************)
(* Model of the msglink link state machine (el::msglink::link) together   *)
(* with the per-connection supervisor (el::msglink::connection_handler).  *)
(*                                                                         *)
(* Every handler of the link is translated into an operator that maps the *)
(* link object and the handler's inputs to a result record                *)
(*     [L |-> link object afterwards, out |-> messages handed to the      *)
(*      link_interface, ex |-> exception that left the handler,           *)
(*      code |-> close code carried by the exception,                     *)
(*      calls |-> subscription ids whose handler was invoked]              *)
(* so that an exception thrown half way through a handler keeps the       *)
(* assignments made before the throw, as in the C++ code.                 *)
(*                                                                         *)
(* Every entry into the class tree (the asio callbacks of the server,     *)
(* link::emit, link::call, subscription_hdl::cancel) first takes the      *)
(* master guard ct_context::get_lock(), so the handlers of one link are   *)
(* serialized: each is one atomic action, and threads that call into the  *)
(* link concurrently interleave at the granularity of whole handlers.     *)
(***************************************************************************)
EXTENDS Integers, Sequences, FiniteSets, TLC

VARIABLES link, sup, sent, net, last, mode, ctx, srv, stk

vars == <<link, sup, sent, net, last, mode, ctx, srv, stk>>

-----------------------------------------------------------------------------
(* Bounds of the model *)

\* inbound messages handled per link
MaxInbound == 3
\* listener registrations per link while the peer is arbitrary
MaxSubs == 1
\* listener registrations per link while the peer follows the protocol
MaxListeners == 3
\* emit() / call() invocations per link
MaxUserOps == 1
\* messages a link still receives after its supervisor has started to close
\* the connection
MaxLate == 1
\* call() invocations per link whose peer answers calls
MaxCalls == 2
\* inbound messages handled per link whose peer answers calls
MaxCallInbound == 4
\* keepalive pings sent per connection
MaxPings == 2
\* inbound messages handled per link whose peer subscribes and unsubscribes
MaxPeerSubs == 5
\* nested guard objects a thread holds at a time
MaxDepth == 3

-----------------------------------------------------------------------------
(* Names and program constants *)

Roles == {"server", "client"}

\* server::server_state_t
UNINITIALIZED == 0
INITIALIZED == 1
RUNNING == 2
FAILED == 3
STOPPED == 4

\* the capacity _Nmax of the static_stack and the values pushed
Nmax == 3
Values == {1, 2}

\* the threads that enter the class tree: the I/O thread and user threads
Threads == {"io", "user1", "user2"}

Peer(r) == IF r = "server" THEN "client" ELSE "server"

\* event and function names the links of the model may define
Events == {"Temp", "Press"}

Funcs == {"Ping"}

\* a name no link of the model defines
UnknownName == "Nope"

\* user defined link versions (EL_MSGLINK_LINK_VERSION) used by the model
LinkVersions == {7, 8}

CLOSED_BY_USER == 1000

PROTO_VERSION_INCOMPATIBLE == 3001

LINK_VERSION_MISMATCH == 3002

EVENT_REQUIREMENTS_NOT_SATISFIED == 3003

DATA_SOURCE_REQUIREMENTS_NOT_SATISFIED == 3004

FUNCTION_REQUIREMENTS_NOT_SATISFIED == 3005

MALFORMED_MESSAGE == 3006

PROTOCOL_ERROR == 3007

UNDEFINED_LINK_ERROR == 3100

\* proto_version::current
current == <<0, 1, 0>>

\* proto_version::compatible_versions
compatible_versions == {<<0, 1, 0>>}

is_compatible(other) == other \in compatible_versions

\* operator> of std::array<uint32_t, 3>: lexicographic comparison
VersionGreater(a, b) ==
    \/ a[1] > b[1]
    \/ a[1] = b[1] /\ a[2] > b[2]
    \/ a[1] = b[1] /\ a[2] = b[2] /\ a[3] > b[3]

\* protocol versions a peer may announce: older, equal, newer
ProtoVersions == {<<0, 0, 9>>, <<0, 1, 0>>, <<0, 1, 1>>}

\* the type names of FUNC_CALL, FUNC_ERR and FUNC_RESULT, the enumerators
\* link.hpp dispatches on and messages.hpp names the wire strings of; the
\* revision of internal/msgtype.hpp that declares them is not among the
\* sources (the one that is still calls them RPC_*)
FuncMsgTypes == {"func_call", "func_err", "func_result"}

\* the type names of enum msg_type_t
MsgTypes ==
    {"auth", "auth_ack",
     "evt_sub", "evt_sub_ack", "evt_sub_nak", "evt_unsub", "evt_emit",
     "data_sub", "data_sub_ack", "data_sub_nak", "data_unsub", "data_change"}
        \cup FuncMsgTypes

\* msg_type_from_string: the enum value, or invalid_msg_type_error
msg_type_from_string(name) ==
    IF name \in MsgTypes THEN name ELSE "invalid_msg_type_error"

\* the type string of msg_pong_t (__EL_MSGLINK_MSG_NAME_PONG, which the
\* sources use but do not define)
PONG == "pong"

\* inout_t
INCOMING == "INCOMING"

OUTGOING == "OUTGOING"

\* the transaction classes
transaction_auth_t == "transaction_auth_t"

transaction_function_call_t == "transaction_function_call_t"

-----------------------------------------------------------------------------
(* Messages: one record shape for all message structs; a field a message  *)
(* type does not have keeps its default.                                  *)

NoMsg ==
    [type |-> "none", tid |-> 0, name |-> "", proto_version |-> <<0, 0, 0>>,
     link_version |-> 0, no_ping |-> "absent", events |-> {}, functions |-> {},
     wellformed |-> TRUE]

msg_auth_t(tid, pv, lv, np, evs, fns) ==
    [NoMsg EXCEPT !.type = "auth", !.tid = tid, !.proto_version = pv,
                  !.link_version = lv, !.no_ping = np, !.events = evs,
                  !.functions = fns]

\* an auth_ack whose tid is never assigned
msg_auth_ack_t_notid(tid) == [NoMsg EXCEPT !.type = "auth_ack"]

msg_auth_ack_t(tid) == [NoMsg EXCEPT !.type = "auth_ack", !.tid = tid]

msg_evt_sub_t(tid, name) ==
    [NoMsg EXCEPT !.type = "evt_sub", !.tid = tid, !.name = name]

msg_evt_unsub_t(tid, name) ==
    [NoMsg EXCEPT !.type = "evt_unsub", !.tid = tid, !.name = name]

msg_evt_emit_t(tid, name) ==
    [NoMsg EXCEPT !.type = "evt_emit", !.tid = tid, !.name = name]

msg_func_call_t(tid, name) ==
    [NoMsg EXCEPT !.type = "func_call", !.tid = tid, !.name = name]

msg_func_err_t(tid) == [NoMsg EXCEPT !.type = "func_err", !.tid = tid]

msg_func_result_t(tid) == [NoMsg EXCEPT !.type = "func_result", !.tid = tid]

msg_pong_t == [NoMsg EXCEPT !.type = PONG]

-----------------------------------------------------------------------------
(* The link object *)

\* link::link followed by define(): the catalog is given by the arguments
NewLink(is_server, lv, out_ev, in_ev, out_fn, in_fn) ==
    [tid_step_value |-> IF is_server THEN 1 ELSE -1,
     tid_counter |-> IF is_server THEN 1 ELSE -1,
     active_transactions |-> {},
     auth_ack_sent |-> FALSE,
     auth_ack_received |-> FALSE,
     authentication_done |-> FALSE,
     pong_messages_required |-> FALSE,
     available_outgoing_events |-> out_ev,
     active_outgoing_events |-> {},
     available_incoming_events |-> in_ev,
     active_incoming_events |-> {},
     sub_id_counter |-> 0,
     event_names_to_subscription_id |-> {},
     event_subscription_ids_to_objects |-> {},
     subscriptions |-> <<>>,
     available_outgoing_functions |-> out_fn,
     available_incoming_function_names_to_functions |-> in_fn,
     link_version |-> lv,
     futures |-> {},
     auth_done_entries |-> 0]

\* result of a handler that has not thrown (yet); calls are the user
\* callbacks it has run and thrown the exceptions that came out of them
Ok(L) ==
    [L |-> L, out |-> <<>>, ex |-> "none", code |-> 0, calls |-> <<>>,
     thrown |-> <<>>]

\* the handler throws: the link keeps what was assigned before the throw
Throw(R, ex, code) == [R EXCEPT !.ex = ex, !.code = code]

\* interface.send_message(msg) called by the link
SendMsg(R, m) == [R EXCEPT !.out = Append(@, m)]

-----------------------------------------------------------------------------
(* Transaction ids and the transaction registry *)

\* generate_new_tid returning the value after the addition
generate_new_tid_post(L) ==
    [tid |-> L.tid_counter + L.tid_step_value,
     L |-> [L EXCEPT !.tid_counter = @ + L.tid_step_value]]

\* link::generate_new_tid: fetch_add returns the value before the addition
generate_new_tid(L) ==
    [tid |-> L.tid_counter,
     L |-> [L EXCEPT !.tid_counter = @ + L.tid_step_value]]

\* active_transactions.contains(_tid)
contains_transaction(L, tid) == \E t \in L.active_transactions : t.id = tid

\* create_transaction without the contains() check
create_transaction_nocheck(R, tid, kind, direction) ==
    [R EXCEPT !.L.active_transactions =
        {t \in @ : t.id # tid}
           \cup {[id |-> tid, kind |-> kind, direction |-> direction]}]

\* link::create_transaction; the assignment active_transactions[_tid] = ...
\* of a std::map replaces an entry that has the same key
create_transaction(R, tid, kind, direction) ==
    IF contains_transaction(R.L, tid)
    THEN Throw(R, "duplicate_transaction_error", 0)
    ELSE [R EXCEPT !.L.active_transactions =
              {t \in @ : t.id # tid}
                 \cup {[id |-> tid, kind |-> kind, direction |-> direction]}]

\* link::get_transaction: TRUE iff it returns a transaction (else it throws
\* invalid_transaction_error)
get_transaction_ok(L, tid, kind) ==
    \E t \in L.active_transactions : t.id = tid /\ t.kind = kind

\* the transaction link::get_transaction returns
get_transaction(L, tid, kind) ==
    CHOOSE t \in L.active_transactions : t.id = tid /\ t.kind = kind

\* link::complete_transaction: active_transactions.erase(id)
complete_transaction(L, tid) ==
    [L EXCEPT !.active_transactions = {t \in @ : t.id # tid}]

-----------------------------------------------------------------------------
(* Sending *)

\* std::set<std::string> iterates in lexicographic order
NameOrder == <<"Nope", "Press", "Temp">>

\* link::send_event_subscribe_message
send_event_subscribe_message(R, name) ==
    LET g == generate_new_tid(R.L)
    IN  SendMsg([R EXCEPT !.L = g.L], msg_evt_sub_t(g.tid, name))

\* link::send_event_unsubscribe_message
send_event_unsubscribe_message(R, name) ==
    LET g == generate_new_tid(R.L)
    IN  SendMsg([R EXCEPT !.L = g.L], msg_evt_unsub_t(g.tid, name))

\* link::send_event_emit_message
send_event_emit_message(R, name) ==
    LET g == generate_new_tid(R.L)
    IN  SendMsg([R EXCEPT !.L = g.L], msg_evt_emit_t(g.tid, name))

\* the range-for loop of link::on_authentication_done over the set names,
\* from position i of the iteration order
RECURSIVE SubscribeFrom(_, _, _)
SubscribeFrom(R, names, i) ==
    IF i > Len(NameOrder) THEN R
    ELSE IF NameOrder[i] \in names
         THEN SubscribeFrom(
                  send_event_subscribe_message(R, NameOrder[i]), names, i + 1)
         ELSE SubscribeFrom(R, names, i + 1)

\* on_authentication_done that subscribes every event the link has defined
on_authentication_done_available(R) ==
    SubscribeFrom([R EXCEPT !.L.auth_done_entries = @ + 1],
                  R.L.available_incoming_events, 1)

\* link::on_authentication_done
on_authentication_done(R) ==
    SubscribeFrom([R EXCEPT !.L.auth_done_entries = @ + 1],
                  R.L.active_incoming_events, 1)

\* update_auth_done with || in place of the first &&
update_auth_done_or(R) ==
    IF (R.L.auth_ack_sent \/ R.L.auth_ack_received) /\ ~R.L.authentication_done
    THEN on_authentication_done([R EXCEPT !.L.authentication_done = TRUE])
    ELSE R

\* update_auth_done that does not wait for the auth_ack of the peer
update_auth_done_sent(R) ==
    IF R.L.auth_ack_sent /\ ~R.L.authentication_done
    THEN on_authentication_done([R EXCEPT !.L.authentication_done = TRUE])
    ELSE R

\* link::update_auth_done
update_auth_done(R) ==
    IF R.L.auth_ack_sent /\ R.L.auth_ack_received /\ ~R.L.authentication_done
    THEN on_authentication_done([R EXCEPT !.L.authentication_done = TRUE])
    ELSE R

-----------------------------------------------------------------------------
(* The handshake *)

\* std::includes(big.begin(), big.end(), small.begin(), small.end())
includes(big, small) == small \subseteq big

\* case AUTH with the event list checked before the link version
handle_auth_events_first(R, msg) ==
    IF ~msg.wellformed THEN Throw(R, "json_exception", 0)
    ELSE IF VersionGreater(current, msg.proto_version)
            /\ ~is_compatible(msg.proto_version)
    THEN Throw(R, "incompatible_link_error", PROTO_VERSION_INCOMPATIBLE)
    ELSE IF ~includes(msg.events, R.L.available_incoming_events)
    THEN Throw(R, "incompatible_link_error", EVENT_REQUIREMENTS_NOT_SATISFIED)
    ELSE IF msg.link_version # R.L.link_version
    THEN Throw(R, "incompatible_link_error", LINK_VERSION_MISMATCH)
    ELSE
      LET R1 == IF msg.no_ping # "absent"
                THEN [R EXCEPT !.L.pong_messages_required =
                                   (msg.no_ping = "true")]
                ELSE R
      IN  IF ~includes(msg.functions, R1.L.available_outgoing_functions)
          THEN Throw(R1, "incompatible_link_error",
                     FUNCTION_REQUIREMENTS_NOT_SATISFIED)
          ELSE [SendMsg(R1, msg_auth_ack_t(msg.tid))
                    EXCEPT !.L.auth_ack_sent = TRUE]

\* case AUTH of link::handle_message_pre_auth
handle_auth(R, msg) ==
    IF ~msg.wellformed THEN Throw(R, "json_exception", 0)
    ELSE IF VersionGreater(current, msg.proto_version)
            /\ ~is_compatible(msg.proto_version)
    THEN Throw(R, "incompatible_link_error", PROTO_VERSION_INCOMPATIBLE)
    ELSE IF msg.link_version # R.L.link_version
    THEN Throw(R, "incompatible_link_error", LINK_VERSION_MISMATCH)
    ELSE
      LET R1 == IF msg.no_ping # "absent"
                THEN [R EXCEPT !.L.pong_messages_required =
                                   (msg.no_ping = "true")]
                ELSE R
      IN  IF ~includes(msg.events, R1.L.available_incoming_events)
          THEN Throw(R1, "incompatible_link_error",
                     EVENT_REQUIREMENTS_NOT_SATISFIED)
          ELSE IF ~includes(msg.functions, R1.L.available_outgoing_functions)
          THEN Throw(R1, "incompatible_link_error",
                     FUNCTION_REQUIREMENTS_NOT_SATISFIED)
          ELSE [SendMsg(R1, msg_auth_ack_t(msg.tid))
                    EXCEPT !.L.auth_ack_sent = TRUE]

\* case AUTH_ACK asserting that the transaction is an incoming one
handle_auth_ack_incoming(R, msg) ==
    IF ~msg.wellformed THEN Throw(R, "json_exception", 0)
    ELSE IF ~get_transaction_ok(R.L, msg.tid, transaction_auth_t)
    THEN Throw(R, "invalid_transaction_error", 0)
    ELSE IF get_transaction(R.L, msg.tid, transaction_auth_t).direction
                # INCOMING
    THEN Throw(R, "protocol_error", 0)
    ELSE [R EXCEPT !.L = [complete_transaction(R.L, msg.tid)
                              EXCEPT !.auth_ack_received = TRUE]]

\* case AUTH_ACK of link::handle_message_pre_auth
handle_auth_ack(R, msg) ==
    IF ~msg.wellformed THEN Throw(R, "json_exception", 0)
    ELSE IF ~get_transaction_ok(R.L, msg.tid, transaction_auth_t)
    THEN Throw(R, "invalid_transaction_error", 0)
    ELSE IF get_transaction(R.L, msg.tid, transaction_auth_t).direction
                # OUTGOING
    THEN Throw(R, "protocol_error", 0)
    ELSE [R EXCEPT !.L = [complete_transaction(R.L, msg.tid)
                              EXCEPT !.auth_ack_received = TRUE]]

\* handle_message_pre_auth whose default case ignores the message
handle_message_pre_auth_ignore(R, msg_type, msg) ==
    LET R1 == CASE msg_type = "auth" -> handle_auth(R, msg)
                [] msg_type = "auth_ack" -> handle_auth_ack(R, msg)
                [] OTHER -> R
    IN  IF R1.ex = "none" THEN update_auth_done(R1) ELSE R1

\* link::handle_message_pre_auth
handle_message_pre_auth(R, msg_type, msg) ==
    LET R1 == CASE msg_type = "auth" -> handle_auth(R, msg)
                [] msg_type = "auth_ack" -> handle_auth_ack(R, msg)
                [] OTHER -> Throw(R, "protocol_error", 0)
    IN  IF R1.ex = "none" THEN update_auth_done(R1) ELSE R1

-----------------------------------------------------------------------------
(* Messages after the handshake *)

\* the subscription ids event_names_to_subscription_id.equal_range(name) holds
equal_range(L, name) ==
    {p[2] : p \in {q \in L.event_names_to_subscription_id : q[1] = name}}

\* the listener loop of case EVENT_EMIT from position i of the iteration
\* order; the handler invoked at position env.fail_at throws env.fail_kind
RECURSIVE call_listeners(_, _, _, _)
call_listeners(R, order, i, env) ==
    IF i > Len(order) THEN R
    ELSE IF order[i] \notin R.L.event_subscription_ids_to_objects
    THEN Throw(R, "invalid_identifier_error", 0)
    ELSE LET R1 == [R EXCEPT !.calls = Append(@, order[i])]
         IN  IF env.fail_at = i
             THEN Throw([R1 EXCEPT !.thrown = Append(@, env.fail_kind)],
                        env.fail_kind, 0)
             ELSE call_listeners(R1, order, i + 1, env)

\* case EVENT_SUB that activates any name
handle_evt_sub_any(R, msg) ==
    IF ~msg.wellformed THEN Throw(R, "json_exception", 0)
    ELSE [R EXCEPT !.L.active_outgoing_events = @ \cup {msg.name}]

\* case EVENT_SUB of link::handle_message_post_auth
handle_evt_sub(R, msg) ==
    IF ~msg.wellformed THEN Throw(R, "json_exception", 0)
    ELSE IF msg.name \notin R.L.available_outgoing_events THEN R
    ELSE [R EXCEPT !.L.active_outgoing_events = @ \cup {msg.name}]

\* case EVENT_UNSUB of link::handle_message_post_auth
handle_evt_unsub(R, msg) ==
    IF ~msg.wellformed THEN Throw(R, "json_exception", 0)
    ELSE IF msg.name \notin R.L.active_outgoing_events THEN R
    ELSE [R EXCEPT !.L.active_outgoing_events = @ \ {msg.name}]

\* case EVENT_EMIT that treats an event that is not active as a violation
\* of the protocol
handle_evt_emit_strict(R, msg, env) ==
    IF ~msg.wellformed THEN Throw(R, "json_exception", 0)
    ELSE IF msg.name \notin R.L.active_incoming_events
            \/ equal_range(R.L, msg.name) = {}
    THEN Throw(R, "protocol_error", 0)
    ELSE call_listeners(R, env.order, 1, env)

\* case EVENT_EMIT of link::handle_message_post_auth
handle_evt_emit(R, msg, env) ==
    IF ~msg.wellformed THEN Throw(R, "json_exception", 0)
    ELSE IF msg.name \notin R.L.active_incoming_events
            \/ equal_range(R.L, msg.name) = {}
    THEN R
    ELSE call_listeners(R, env.order, 1, env)

\* the handler of an incoming function run without a catch clause
run_function_handler_uncaught(R, msg, env) ==
    LET R1 == [R EXCEPT !.calls = Append(@, 0)]
    IN  IF env.fail_at # 0
        THEN Throw([R1 EXCEPT !.thrown = Append(@, env.fail_kind)],
                   env.fail_kind, 0)
        ELSE SendMsg(R1, msg_func_result_t(msg.tid))

\* the handler of an incoming function is run (id 0 in calls) and its result
\* or, for a std::exception it throws, an error is sent back
run_function_handler(R, msg, env) ==
    LET R1 == [R EXCEPT !.calls = Append(@, 0)]
    IN  IF env.fail_at # 0
        THEN SendMsg([R1 EXCEPT !.thrown = Append(@, env.fail_kind)],
                     msg_func_err_t(msg.tid))
        ELSE SendMsg(R1, msg_func_result_t(msg.tid))

\* case FUNC_CALL that runs a handler whatever the name is
handle_func_call_unchecked(R, msg, env) ==
    IF ~msg.wellformed THEN Throw(R, "json_exception", 0)
    ELSE run_function_handler(R, msg, env)

\* case FUNC_CALL that answers a call of an unknown name with func_err
handle_func_call_reject(R, msg, env) ==
    IF ~msg.wellformed THEN Throw(R, "json_exception", 0)
    ELSE IF msg.name \notin R.L.available_incoming_function_names_to_functions
    THEN SendMsg(R, msg_func_err_t(msg.tid))
    ELSE run_function_handler(R, msg, env)

\* case FUNC_CALL of link::handle_message_post_auth
handle_func_call(R, msg, env) ==
    IF ~msg.wellformed THEN Throw(R, "json_exception", 0)
    ELSE IF msg.name \notin R.L.available_incoming_function_names_to_functions
    THEN R
    ELSE run_function_handler(R, msg, env)

\* cases FUNC_ERR and FUNC_RESULT that leave the transaction in the registry
handle_func_response_keep(R, msg, outcome) ==
    IF ~msg.wellformed THEN Throw(R, "json_exception", 0)
    ELSE IF ~get_transaction_ok(R.L, msg.tid, transaction_function_call_t)
    THEN Throw(R, "invalid_transaction_error", 0)
    ELSE [R EXCEPT !.L.futures = {f \in @ : f[1] # msg.tid}
                                     \cup {<<msg.tid, outcome>>}]

\* cases FUNC_ERR and FUNC_RESULT of link::handle_message_post_auth: the
\* hook of the transaction completes the future of the call
handle_func_response(R, msg, outcome) ==
    IF ~msg.wellformed THEN Throw(R, "json_exception", 0)
    ELSE IF ~get_transaction_ok(R.L, msg.tid, transaction_function_call_t)
    THEN Throw(R, "invalid_transaction_error", 0)
    ELSE [R EXCEPT !.L = [complete_transaction(R.L, msg.tid) EXCEPT
              !.futures = {f \in @ : f[1] # msg.tid}
                              \cup {<<msg.tid, outcome>>}]]

\* link::handle_message_post_auth
handle_message_post_auth(R, msg_type, msg, env) ==
    CASE msg_type = "evt_sub" -> handle_evt_sub(R, msg)
      [] msg_type = "evt_unsub" -> handle_evt_unsub(R, msg)
      [] msg_type = "evt_emit" -> handle_evt_emit(R, msg, env)
      [] msg_type \in {"data_sub", "data_sub_ack", "data_sub_nak",
                       "data_unsub", "data_change"} -> R
      [] msg_type = "func_call" -> handle_func_call(R, msg, env)
      [] msg_type = "func_err" -> handle_func_response(R, msg, "error")
      [] msg_type = "func_result" -> handle_func_response(R, msg, "value")
      [] OTHER -> Throw(R, "protocol_error", 0)

\* link::on_message; a nlohmann::json::exception is rethrown as
\* malformed_message_error
link_on_message(L, msg, env) ==
    LET R == Ok(L)
        R1 == IF msg.type = "unparsable" THEN Throw(R, "json_exception", 0)
              ELSE IF msg.type = PONG THEN R
              ELSE IF msg_type_from_string(msg.type) = "invalid_msg_type_error"
              THEN Throw(R, "invalid_msg_type_error", 0)
              ELSE IF L.authentication_done
              THEN handle_message_post_auth(
                       R, msg_type_from_string(msg.type), msg, env)
              ELSE handle_message_pre_auth(
                       R, msg_type_from_string(msg.type), msg)
    IN  IF R1.ex = "json_exception"
        THEN Throw(R1, "malformed_message_error", 0)
        ELSE R1

\* link::on_connection_established
on_connection_established(L) ==
    LET g == generate_new_tid(L)
        R == create_transaction(Ok(g.L), g.tid, transaction_auth_t, OUTGOING)
    IN  IF R.ex # "none" THEN R
        ELSE SendMsg(R, msg_auth_t(g.tid, current, L.link_version, "absent",
                         L.available_outgoing_events,
                         L.available_incoming_function_names_to_functions))

\* link::on_pong_received
link_on_pong_received(L) ==
    IF L.pong_messages_required THEN SendMsg(Ok(L), msg_pong_t) ELSE Ok(L)

-----------------------------------------------------------------------------
(* Listeners *)

\* link::generate_new_sub_id: pre-increment
generate_new_sub_id(L) ==
    [id |-> L.sub_id_counter + 1, L |-> [L EXCEPT !.sub_id_counter = @ + 1]]

\* link::add_event_subscription; subscriptions[id] is the event_subscription
\* object, which the handle returned to the user keeps alive; cancel_runs
\* counts the runs of its cancel function
add_event_subscription(L, name) ==
    LET g == generate_new_sub_id(L)
        L1 == [g.L EXCEPT
                 !.subscriptions =
                     Append(@, [name |-> name, cancel_function |-> TRUE,
                                handler_function |-> TRUE,
                                cancel_runs |-> 0]),
                 !.event_subscription_ids_to_objects = @ \cup {g.id},
                 !.event_names_to_subscription_id = @ \cup {<<name, g.id>>}]
    IN  IF name \in L1.active_incoming_events THEN Ok(L1)
        ELSE LET R == Ok([L1 EXCEPT !.active_incoming_events = @ \cup {name}])
             IN  IF R.L.authentication_done
                 THEN send_event_subscribe_message(R, name)
                 ELSE R

\* link::define_event with a listener, for an incoming event
define_event(L, name) ==
    add_event_subscription(
        [L EXCEPT !.available_incoming_events = @ \cup {name}], name)

\* event_subscription::invalidate of the subscription with the given id
invalidate(L, id) ==
    [L EXCEPT !.subscriptions[id].cancel_function = FALSE,
              !.subscriptions[id].handler_function = FALSE]

\* sub_count that is not decremented for the erased entry
sub_count_nodec(L, name, id) == Cardinality(equal_range(L, name))

\* sub_count that does not count the other listeners of the event
sub_count_none(L, name, id) == 0

\* sub_count of link::remove_event_subscription: the entries of the event
\* that are left once the entry of the subscription has been erased
sub_count_left(L, name, id) ==
    IF id \in equal_range(L, name)
    THEN Cardinality(equal_range(L, name)) - 1
    ELSE Cardinality(equal_range(L, name))

\* link::remove_event_subscription
remove_event_subscription(L, name, id) ==
    LET range == equal_range(L, name)
        found == id \in range
        sub_count == sub_count_left(L, name, id)
        L1 == IF found
              THEN [L EXCEPT !.event_names_to_subscription_id =
                                 @ \ {<<name, id>>}]
              ELSE L
        R1 == IF sub_count = 0
              THEN LET R == Ok([L1 EXCEPT !.active_incoming_events =
                                              @ \ {name}])
                   IN  IF R.L.authentication_done
                       THEN send_event_unsubscribe_message(R, name)
                       ELSE R
              ELSE Ok(L1)
    IN  IF id \notin R1.L.event_subscription_ids_to_objects
        THEN Throw(R1, "invalid_identifier_error", 0)
        ELSE [R1 EXCEPT !.L = [invalidate(R1.L, id) EXCEPT
                  !.event_subscription_ids_to_objects = @ \ {id}]]

\* the cancel function of the subscription with the given id: the lambda
\* link::add_event_subscription creates; cancel_runs counts its runs
cancel_function(L, id) ==
    remove_event_subscription(
        [L EXCEPT !.subscriptions[id].cancel_runs = @ + 1],
        L.subscriptions[id].name, id)

\* event_subscription::cancel that does not look at cancel_function
cancel_unchecked(L, id) ==
    LET R == cancel_function(L, id)
    IN  IF R.ex # "none" THEN R
        ELSE [R EXCEPT !.L.subscriptions[id].cancel_function = FALSE]

\* event_subscription::cancel of the subscription with the given id, as
\* called by subscription_hdl::cancel and ~subscription_hdl
cancel(L, id) ==
    IF L.subscriptions[id].cancel_function
    THEN LET R == cancel_function(L, id)
         IN  IF R.ex # "none" THEN R
             ELSE [R EXCEPT !.L.subscriptions[id].cancel_function = FALSE]
    ELSE Ok(L)

\* link::~link: every subscription the link still holds is invalidated
RECURSIVE invalidate_all(_, _)
invalidate_all(L, i) ==
    IF i > Len(L.subscriptions) THEN L
    ELSE IF i \in L.event_subscription_ids_to_objects
         THEN invalidate_all(invalidate(L, i), i + 1)
         ELSE invalidate_all(L, i + 1)

\* destruction of active_transactions that leaves the promises alive
destroy_transactions_leak(L) == [L EXCEPT !.active_transactions = {}]

\* destruction of the member active_transactions of a link: the hooks of a
\* function-call transaction hold the only references to the promise of the
\* call, so a promise that has no value yet is broken
destroy_transactions(L) ==
    [L EXCEPT !.active_transactions = {},
              !.futures =
                  {IF f[2] = "pending"
                      /\ get_transaction_ok(L, f[1],
                                            transaction_function_call_t)
                   THEN <<f[1], "broken_promise">>
                   ELSE f : f \in @}]

\* destruction of a link that leaves its subscriptions as they are
link_destructor_keep(L) == destroy_transactions(L)

\* link::~link followed by the destruction of the members
link_destructor(L) == destroy_transactions(invalidate_all(L, 1))

-----------------------------------------------------------------------------
(* emit and call *)

\* link::emit that sends whether the event is subscribed or not
emit_unsubscribed(L, name) ==
    IF name \notin L.available_outgoing_events
    THEN Throw(Ok(L), "invalid_outgoing_event_error", 0)
    ELSE send_event_emit_message(Ok(L), name)

\* link::emit that looks at the subscription before the definition
emit_active_first(L, name) ==
    IF name \notin L.active_outgoing_events THEN Ok(L)
    ELSE IF name \notin L.available_outgoing_events
    THEN Throw(Ok(L), "invalid_outgoing_event_error", 0)
    ELSE send_event_emit_message(Ok(L), name)

\* link::emit
emit(L, name) ==
    IF name \notin L.available_outgoing_events
    THEN Throw(Ok(L), "invalid_outgoing_event_error", 0)
    ELSE IF name \notin L.active_outgoing_events THEN Ok(L)
    ELSE send_event_emit_message(Ok(L), name)

\* link::call; futures holds the state of the promise of every call
call(L, name) ==
    LET g == generate_new_tid(L)
        R == create_transaction(Ok(g.L), g.tid, transaction_function_call_t,
                                OUTGOING)
    IN  IF R.ex # "none" THEN R
        ELSE SendMsg([R EXCEPT !.L.futures = @ \cup {<<g.tid, "pending">>}],
                     msg_func_call_t(g.tid, name))

-----------------------------------------------------------------------------
(* The supervisor (connection_handler) and the transport *)

\* close_code_name
close_code_name(code) ==
    CASE code = CLOSED_BY_USER -> "closed by user"
      [] code = PROTO_VERSION_INCOMPATIBLE -> "proto version incompatible"
      [] code = LINK_VERSION_MISMATCH -> "link version mismatch"
      [] code = EVENT_REQUIREMENTS_NOT_SATISFIED ->
             "event requirements not satisfied"
      [] code = DATA_SOURCE_REQUIREMENTS_NOT_SATISFIED ->
             "data source requirements not satisfied"
      [] code = FUNCTION_REQUIREMENTS_NOT_SATISFIED ->
             "function requirements not satisfied"
      [] code = MALFORMED_MESSAGE -> "malformed message"
      [] code = PROTOCOL_ERROR -> "protocol error"
      [] code = UNDEFINED_LINK_ERROR -> "undefined link error"
      [] OTHER -> "N/A"

\* connection_handler::close_with_log: the reason the connection is closed
\* with, "" when it is not closed
close_with_log(code) == IF code = 0 THEN "" ELSE close_code_name(code)

\* run_with_exception_handling that has the clause for incompatible_link_error
\* and the last one only
close_code_for_generic(R) ==
    CASE R.ex = "none" -> 0
      [] R.ex = "incompatible_link_error" -> R.code
      [] OTHER -> UNDEFINED_LINK_ERROR

\* run_with_exception_handling without the clause that ignores
\* invalid_transaction_error, which then is a protocol_error
close_code_for_strict(R) ==
    CASE R.ex = "none" -> 0
      [] R.ex = "incompatible_link_error" -> R.code
      [] R.ex = "malformed_message_error" -> MALFORMED_MESSAGE
      [] R.ex \in {"protocol_error", "invalid_transaction_error"} ->
             PROTOCOL_ERROR
      [] OTHER -> UNDEFINED_LINK_ERROR

\* connection_handler::run_with_exception_handling: the code the connection
\* is closed with for the exception that left the link, 0 for no close
close_code_for(R) ==
    CASE R.ex = "none" -> 0
      [] R.ex = "incompatible_link_error" -> R.code
      [] R.ex = "invalid_transaction_error" -> 0
      [] R.ex = "malformed_message_error" -> MALFORMED_MESSAGE
      [] R.ex = "protocol_error" -> PROTOCOL_ERROR
      [] OTHER -> UNDEFINED_LINK_ERROR

\* connection_handler::send_message for each message of a handler: a message
\* is written to the transport unless communication has been canceled
written(r, out) ==
    IF sup[r].m_communication_canceled THEN <<>> ELSE out

\* the catalogs define() may set up
Catalogs ==
    {[out_ev |-> {"Temp"}, in_ev |-> {}, out_fn |-> {}, in_fn |-> {"Ping"}],
     [out_ev |-> {}, in_ev |-> {"Temp"}, out_fn |-> {"Ping"}, in_fn |-> {}],
     [out_ev |-> {"Temp", "Press"}, in_ev |-> {"Temp", "Press"},
      out_fn |-> {"Ping"}, in_fn |-> {"Ping"}]}

DefinedLink(r, lv, c) ==
    NewLink(r = "server", lv, c.out_ev, c.in_ev, c.out_fn, c.in_fn)

NewSupervisor ==
    [phase |-> "defining", m_communication_canceled |-> FALSE,
     close_codes |-> {}, inbound |-> 0, late |-> 0, user_ops |-> 0,
     m_ping_timer |-> "none", pending_timers |-> 0, pings |-> 0, pongs |-> 0,
     unanswered |-> 0, terminated |-> FALSE, handler_copy |-> 0, peer_subscribed |-> {}]

\* connection_handler::schedule_ping that sets a new timer and leaves an
\* existing one running
schedule_ping_keeping(s) ==
    [s EXCEPT !.m_ping_timer = "pending", !.pending_timers = @ + 1]

\* connection_handler::schedule_ping: an existing timer is canceled and a new
\* one is set
schedule_ping(s) ==
    [s EXCEPT !.m_ping_timer = "pending",
              !.pending_timers = (IF s.m_ping_timer = "pending" THEN @ - 1 ELSE @) + 1]

\* connection_handler::cancel_communication that only cancels the timer
cancel_communication_timer_only(s) ==
    [s EXCEPT !.m_ping_timer = "none",
              !.pending_timers = IF s.m_ping_timer = "pending" THEN @ - 1 ELSE @]

\* connection_handler::cancel_communication
cancel_communication(s) ==
    IF s.m_communication_canceled THEN s
    ELSE [s EXCEPT !.m_ping_timer = "none",
                   !.pending_timers = IF s.m_ping_timer = "pending" THEN @ - 1 ELSE @,
                   !.m_communication_canceled = TRUE]

\* connection_handler::~connection_handler
connection_handler_destructor(s) ==
    [s EXCEPT !.m_ping_timer = "none",
              !.pending_timers = IF s.m_ping_timer = "pending" THEN @ - 1 ELSE @]

NoLast ==
    [role |-> "none", op |-> "init", msg |-> NoMsg, pre |-> <<>>,
     ex |-> "none", code |-> 0, close |-> 0, reason |-> "", out |-> <<>>,
     calls |-> <<>>, thrown |-> <<>>, arg |-> "", id |-> 0]

\* a server after construction: server_state, whether a thread is inside
\* socket_server.run(), and the last call with the state it found and the
\* exception it threw
NewServer ==
    [server_state |-> UNINITIALIZED, serving |-> FALSE,
     op |-> "none", pre |-> UNINITIALIZED, ex |-> "none"]

\* an empty static_stack<_T, _Nmax>: element_buffer holds the bytes of the
\* elements, those beyond current_len being left over from destroyed ones;
\* op, pre and ret record the last operation
NewStack ==
    [element_buffer |-> [i \in 1..Nmax |-> 0], current_len |-> 0,
     overflow_flag |-> FALSE,
     op |-> "none", arg |-> 0, ret |-> FALSE,
     pre |-> [element_buffer |-> [i \in 1..Nmax |-> 0], current_len |-> 0,
              overflow_flag |-> FALSE],
     other |-> <<>>, other_after |-> <<>>]

\* ct_context and its tracking_mutex master_guard: owner is the thread that
\* owns the std::mutex, m_holder the id tracking_mutex records; locks are the
\* lock objects each thread holds, innermost last (TRUE: owns the mutex), pc
\* the step of tracking_mutex a thread is at; cb tells whether the thread is
\* inside a user callback of a dispatch ("function": a function handler,
\* "listener": an event listener) or behind it ("after_..."), fault whether
\* std::mutex::lock has thrown in the thread
NewContext ==
    [owner |-> "none", m_holder |-> "none",
     locks |-> [t \in Threads |-> <<>>],
     pc |-> [t \in Threads |-> "idle"],
     soft |-> [t \in Threads |-> FALSE],
     cb |-> [t \in Threads |-> "none"],
     fault |-> [t \in Threads |-> FALSE]]

\* one link talking to an arbitrary peer
Init ==
    /\ \E r \in Roles, c \in {d \in Catalogs : d.in_ev # {}} :
          /\ mode = [pair |-> FALSE, live |-> {r}]
          /\ link = [q \in Roles |-> DefinedLink(q, 7, c)]
    /\ sup = [q \in Roles |-> NewSupervisor]
    /\ sent = [q \in Roles |-> <<>>]
    /\ net = [q \in Roles |-> <<>>]
    /\ last = NoLast
    /\ ctx = NewContext
    /\ srv = NewServer
    /\ stk = NewStack

\* a server link and a client link joined by a reliable FIFO channel
InitPair ==
    /\ mode = [pair |-> TRUE, live |-> Roles]
    /\ \E cs \in Catalogs, cc \in Catalogs, lv \in LinkVersions :
          link = [q \in Roles |-> IF q = "server" THEN DefinedLink(q, 7, cs)
                                  ELSE DefinedLink(q, lv, cc)]
    /\ sup = [q \in Roles |-> NewSupervisor]
    /\ sent = [q \in Roles |-> <<>>]
    /\ net = [q \in Roles |-> <<>>]
    /\ last = NoLast
    /\ ctx = NewContext
    /\ srv = NewServer
    /\ stk = NewStack

\* the effect of a handler of link r with result R
Apply(r, op, msg, arg, id, R, code, s) ==
    /\ link' = [link EXCEPT ![r] = R.L]
    /\ sent' = [sent EXCEPT ![r] = @ \o written(r, R.out)]
    /\ sup' = [sup EXCEPT ![r] =
                 [s EXCEPT !.close_codes =
                      IF code = 0 THEN @ ELSE @ \cup {code}]]
    /\ last' = [role |-> r, op |-> op, msg |-> msg, pre |-> link[r],
                ex |-> R.ex, code |-> R.code, close |-> code,
                reason |-> close_with_log(code), out |-> R.out,
                calls |-> R.calls, thrown |-> R.thrown, arg |-> arg,
                id |-> id]

\* connection_handler::on_open, called right after the handler and its
\* link have been constructed and define() has run
OnOpen(r) ==
    /\ r \in mode.live
    /\ sup[r].phase = "defining"
    /\ LET R == on_connection_established(link[r])
       IN  /\ Apply(r, "on_open", NoMsg, "", 0, R, close_code_for(R),
                    schedule_ping([sup[r] EXCEPT !.phase = "open"]))
           /\ net' = IF mode.pair
                     THEN [net EXCEPT ![Peer(r)] = @ \o written(r, R.out)]
                     ELSE net
    /\ UNCHANGED <<mode, ctx, srv, stk>>

\* the orders in which the listeners in a set of at most three ids can be
\* visited (the iteration order of an unordered_multimap is unspecified)
Orders(S) ==
    {o \in UNION {[1..n -> S] : n \in {Cardinality(S)}} :
        \A i, j \in DOMAIN o : i # j => o[i] # o[j]}

\* what the user code called by a message handler may do
Envs(L, msg) ==
    IF L.authentication_done /\ msg.type = "evt_emit" /\ msg.wellformed
    THEN {[order |-> o, fail_at |-> k, fail_kind |-> fk] :
            o \in Orders(equal_range(L, msg.name)),
            k \in 0..Cardinality(equal_range(L, msg.name)),
            fk \in {"json_exception", "exception"}}
    ELSE IF L.authentication_done /\ msg.type = "func_call" /\ msg.wellformed
    THEN {[order |-> <<>>, fail_at |-> k, fail_kind |-> fk] :
            k \in {0, 1}, fk \in {"json_exception", "exception"}}
    ELSE {[order |-> <<>>, fail_at |-> 0, fail_kind |-> "exception"]}

\* the auth messages an arbitrary peer may send to link r: every combination
\* of passing and failing checks; the newer protocol version comes with
\* another tid and with no_ping
PeerAuths(r) ==
    LET step == link[r].tid_step_value
    IN  {msg_auth_t(IF pv = current THEN -step ELSE -3 * step, pv, lv,
                    IF pv = <<0, 1, 1>> THEN "true" ELSE "absent", evs, fns) :
            pv \in ProtoVersions, lv \in LinkVersions,
            evs \in {{}, {"Temp"}, {"Temp", "Press"}},
            fns \in {{}, {"Ping"}}}

\* the messages an arbitrary peer may send to link r
PeerMessages(r) ==
    LET step == link[r].tid_step_value
    IN  PeerAuths(r)
        \cup {msg_auth_ack_t(t) : t \in {step, 2 * step, -step}}
        \cup {[NoMsg EXCEPT !.type = ty, !.name = n] :
                ty \in {"evt_sub", "evt_unsub", "evt_emit"},
                n \in {"Temp", UnknownName}}
        \cup {[NoMsg EXCEPT !.type = ty] :
                ty \in {"evt_sub_ack", "data_sub", PONG, "bogus",
                        "unparsable"}}
        \cup {msg_func_call_t(-step, n) : n \in {"Ping", UnknownName}}
        \cup {[NoMsg EXCEPT !.type = ty, !.tid = t] :
                ty \in {"func_err", "func_result"}, t \in {2 * step, -step}}
        \cup {[NoMsg EXCEPT !.type = ty, !.wellformed = FALSE] :
                ty \in {"auth", "evt_sub"}}

\* connection_handler::on_message, called by the I/O thread when it is not
\* inside another callback
on_message(r, msg, env) ==
    LET R == link_on_message(link[r], msg, env)
    IN  /\ sup[r].handler_copy = 0
        /\ Apply(r, "on_message", msg, "", 0, R, close_code_for(R),
                 [sup[r] EXCEPT !.inbound = @ + 1,
                                !.late = IF sup[r].close_codes = {} THEN @
                                         ELSE @ + 1])
        /\ net' = [q \in Roles |->
                     IF ~mode.pair THEN net[q]
                     ELSE IF q = r THEN Tail(net[q])
                     ELSE net[q] \o written(r, R.out)]
        /\ UNCHANGED <<mode, ctx, srv, stk>>

\* a message of an arbitrary peer arrives
OnMessage(r) ==
    /\ r \in mode.live /\ ~mode.pair
    /\ sup[r].phase = "open"
    /\ sup[r].inbound < MaxInbound
    /\ sup[r].close_codes = {} \/ sup[r].late < MaxLate
    /\ \E msg \in PeerMessages(r) :
          \E env \in Envs(link[r], msg) : on_message(r, msg, env)

\* the next message of the peer link arrives
Deliver(r) ==
    /\ mode.pair
    /\ sup[r].phase = "open"
    /\ net[r] # <<>>
    /\ sup[r].close_codes = {} \/ sup[r].late < MaxLate
    /\ \E env \in Envs(link[r], Head(net[r])) :
          on_message(r, Head(net[r]), env)

\* connection_handler::on_close followed by the destruction of the handler
\* and its link (server::on_close)
OnClose(r) ==
    /\ r \in mode.live
    /\ sup[r].phase = "open"
    /\ sup[r].handler_copy = 0
    /\ mode.pair =>
          \E q \in Roles : sup[q].close_codes # {} \/ sup[q].phase = "closed"
    /\ link' = [link EXCEPT ![r] = link_destructor(@)]
    /\ sup' = [sup EXCEPT ![r] =
                 [connection_handler_destructor(cancel_communication(@))
                     EXCEPT !.phase = "closed"]]
    /\ last' = [NoLast EXCEPT !.role = r, !.op = "on_close", !.pre = link[r]]
    /\ UNCHANGED <<sent, net, mode, ctx, srv, stk>>

\* a user operation on link r with result R; its exception goes to the caller
UserOp(r, op, arg, id, R, s) ==
    /\ Apply(r, op, NoMsg, arg, id, R, 0, s)
    /\ net' = IF mode.pair
              THEN [net EXCEPT ![Peer(r)] = @ \o written(r, R.out)]
              ELSE net
    /\ UNCHANGED <<mode, ctx, srv, stk>>

\* link::define_event with a listener, called by define() or later by a
\* method of the user's link class
AddListener(r, max) ==
    /\ r \in mode.live
    /\ sup[r].phase # "closed"
    /\ link[r].sub_id_counter < max
    /\ \E name \in Events :
          UserOp(r, "add_event_subscription", name,
                 link[r].sub_id_counter + 1,
                 define_event(link[r], name), sup[r])

\* subscription_hdl::cancel, or the last reference to the handle is dropped
Cancel(r) ==
    /\ r \in mode.live
    /\ \E id \in 1..Len(link[r].subscriptions) :
          UserOp(r, "cancel", link[r].subscriptions[id].name, id,
                 cancel(link[r], id), sup[r])

\* link::emit called by the user
Emit(r) ==
    /\ r \in mode.live
    /\ sup[r].phase = "open"
    /\ sup[r].user_ops < MaxUserOps
    /\ \E name \in Events :
          UserOp(r, "emit", name, 0, emit(link[r], name),
                 [sup[r] EXCEPT !.user_ops = @ + 1])

\* link::call called by the user
Call(r) ==
    /\ r \in mode.live
    /\ sup[r].phase = "open"
    /\ sup[r].user_ops < MaxUserOps
    /\ \E name \in Funcs :
          UserOp(r, "call", name, 0, call(link[r], name),
                 [sup[r] EXCEPT !.user_ops = @ + 1])

\* a handshake message of a peer that follows the protocol and satisfies the
\* requirements of link r
OnHandshakeMessage(r) ==
    /\ r \in mode.live /\ ~mode.pair
    /\ sup[r].phase = "open"
    /\ sup[r].inbound < MaxInbound
    /\ sup[r].close_codes = {} \/ sup[r].late < MaxLate
    /\ \E msg \in {msg_auth_t(-link[r].tid_step_value, current,
                              link[r].link_version, "absent", Events, Funcs),
                   msg_auth_ack_t(link[r].tid_step_value)} :
          \E env \in Envs(link[r], msg) : on_message(r, msg, env)

\* the tids a transaction is created with: the first two of the link's own
\* series and the first of the peer's
TidPool(r) ==
    {link[r].tid_step_value, 2 * link[r].tid_step_value,
     -link[r].tid_step_value}

\* link::create_transaction applied to a tid, a transaction class and a
\* direction of the caller's choice
CreateTransaction(r) ==
    /\ r \in mode.live
    /\ sup[r].phase # "closed"
    /\ \E tid \in TidPool(r),
          kind \in {transaction_auth_t, transaction_function_call_t},
          direction \in {INCOMING, OUTGOING} :
          UserOp(r, "create_transaction", kind, tid,
                 create_transaction(Ok(link[r]), tid, kind, direction),
                 sup[r])

\* the peer answers a function call, or pretends to
OnFuncResponse(r) ==
    /\ r \in mode.live /\ ~mode.pair
    /\ sup[r].phase = "open"
    /\ sup[r].inbound < MaxInbound
    /\ sup[r].close_codes = {} \/ sup[r].late < MaxLate
    /\ \E ty \in {"func_err", "func_result"}, tid \in TidPool(r) :
          LET msg == [NoMsg EXCEPT !.type = ty, !.tid = tid]
          IN  \E env \in Envs(link[r], msg) : on_message(r, msg, env)

\* one link and an arbitrary peer
Next ==
    \E r \in Roles :
        \/ OnOpen(r)
        \/ OnMessage(r)
        \/ OnClose(r)
        \/ AddListener(r, MaxSubs)
        \/ Cancel(r)
        \/ Emit(r)
        \/ Call(r)

Spec == Init /\ [][Next]_vars

\* one link, its listeners and a peer that follows the protocol
NextSubs ==
    \E r \in Roles :
        \/ OnOpen(r)
        \/ OnHandshakeMessage(r)
        \/ OnClose(r)
        \/ AddListener(r, MaxListeners)
        \/ Cancel(r)

SpecSubs == Init /\ [][NextSubs]_vars

\* a server link and a client link
NextPair ==
    \E r \in Roles :
        \/ OnOpen(r)
        \/ Deliver(r)
        \/ OnClose(r)
        \/ AddListener(r, MaxSubs)
        \/ Cancel(r)

SpecPair == InitPair /\ [][NextPair]_vars

\* the pair with a transport that delivers: the connection is opened on both
\* sides and a message that is in flight is eventually handed to the link
FairPair ==
    /\ InitPair /\ [][NextPair]_vars
    /\ \A r \in Roles : WF_vars(OnOpen(r)) /\ WF_vars(Deliver(r))

\* one link whose transaction registry is also used directly
NextRegistry ==
    \E r \in Roles :
        \/ OnOpen(r)
        \/ OnHandshakeMessage(r)
        \/ OnFuncResponse(r)
        \/ OnClose(r)
        \/ Call(r)
        \/ CreateTransaction(r)

SpecRegistry == Init /\ [][NextRegistry]_vars

\* the peer emits an event
OnEmitMessage(r) ==
    /\ r \in mode.live /\ ~mode.pair
    /\ sup[r].phase = "open"
    /\ sup[r].inbound < MaxInbound
    /\ sup[r].close_codes = {} \/ sup[r].late < MaxLate
    /\ \E name \in Events \cup {UnknownName} :
          LET msg == msg_evt_emit_t(-2 * link[r].tid_step_value, name)
          IN  \E env \in Envs(link[r], msg) : on_message(r, msg, env)

\* the peer subscribes to an event or unsubscribes from it; peer_subscribed
\* records the names whose last evt_sub / evt_unsub handled after the
\* handshake was an evt_sub
OnSubMessage(r) ==
    /\ r \in mode.live /\ ~mode.pair
    /\ sup[r].phase = "open"
    /\ sup[r].handler_copy = 0
    /\ sup[r].inbound < MaxPeerSubs
    /\ sup[r].close_codes = {}
    /\ \E name \in Events \cup {UnknownName}, sub \in BOOLEAN :
          LET msg == IF sub
                     THEN msg_evt_sub_t(-2 * link[r].tid_step_value, name)
                     ELSE msg_evt_unsub_t(-2 * link[r].tid_step_value, name)
              R == link_on_message(link[r], msg,
                                   CHOOSE env \in Envs(link[r], msg) : TRUE)
          IN  Apply(r, "on_message", msg, "", 0, R, close_code_for(R),
                    [sup[r] EXCEPT
                        !.inbound = @ + 1,
                        !.peer_subscribed =
                            IF ~link[r].authentication_done THEN @
                            ELSE IF sub THEN @ \cup {name}
                            ELSE @ \ {name}])
    /\ UNCHANGED <<net, mode, ctx, srv, stk>>

\* one link that emits events and a peer that follows the handshake and
\* subscribes and unsubscribes
NextPeerSubs ==
    \E r \in Roles :
        \/ OnOpen(r)
        \/ OnHandshakeMessage(r)
        \/ OnSubMessage(r)
        \/ Emit(r)
        \/ OnClose(r)

SpecPeerSubs == Init /\ [][NextPeerSubs]_vars

\* one link, its listeners and a peer that follows the protocol and emits
NextFanOut ==
    \E r \in Roles :
        \/ OnOpen(r)
        \/ OnHandshakeMessage(r)
        \/ OnEmitMessage(r)
        \/ OnClose(r)
        \/ AddListener(r, MaxListeners)
        \/ Cancel(r)

SpecFanOut == Init /\ [][NextFanOut]_vars

\* link::call called by the user, more than once
CallFunction(r) ==
    /\ r \in mode.live
    /\ sup[r].phase = "open"
    /\ sup[r].user_ops < MaxCalls
    /\ \E name \in Funcs :
          UserOp(r, "call", name, 0, call(link[r], name),
                 [sup[r] EXCEPT !.user_ops = @ + 1])

\* server::stop closes the connection: connection_handler::close_connection
CloseConnection(r) ==
    /\ r \in mode.live
    /\ sup[r].phase = "open"
    /\ ~sup[r].terminated
    /\ ~sup[r].m_communication_canceled
    /\ Apply(r, "close_connection", NoMsg, "", 0, Ok(link[r]), 0,
             cancel_communication(sup[r]))
    /\ UNCHANGED <<net, mode, ctx, srv, stk>>

\* connection_handler::handle_ping_timer when the timer expires
HandlePingTimer(r) ==
    /\ r \in mode.live
    /\ sup[r].phase = "open"
    /\ sup[r].m_ping_timer = "pending"
    /\ sup[r].pings < MaxPings
    /\ Apply(r, "handle_ping_timer", NoMsg, "", 0, Ok(link[r]), 0,
             [sup[r] EXCEPT !.m_ping_timer = "none", !.pending_timers = @ - 1,
                            !.pings = @ + 1, !.unanswered = @ + 1])
    /\ UNCHANGED <<net, mode, ctx, srv, stk>>

\* connection_handler::on_pong_received: a pong of the peer arrives, in answer
\* to the last ping or unsolicited
OnPongReceived(r) ==
    /\ r \in mode.live
    /\ sup[r].phase = "open"
    /\ ~sup[r].terminated
    /\ LET R == link_on_pong_received(link[r])
       IN  /\ Apply(r, "on_pong_received", NoMsg, "", 0, R, close_code_for(R),
                    schedule_ping([sup[r] EXCEPT !.pongs = sup[r].pings,
                                                 !.unanswered = 0]))
           /\ net' = IF mode.pair
                     THEN [net EXCEPT ![Peer(r)] = @ \o written(r, R.out)]
                     ELSE net
    /\ UNCHANGED <<mode, ctx, srv, stk>>

\* connection_handler::on_pong_timeout: the last ping was not answered
OnPongTimeout(r) ==
    /\ r \in mode.live
    /\ sup[r].phase = "open"
    /\ ~sup[r].terminated
    /\ sup[r].pongs < sup[r].pings
    /\ Apply(r, "on_pong_timeout", NoMsg, "", 0, Ok(link[r]), 0,
             [cancel_communication(sup[r]) EXCEPT !.terminated = TRUE,
                                                 !.pongs = sup[r].pings])
    /\ UNCHANGED <<net, mode, ctx, srv, stk>>

\* event_subscription::asio_cb_call_handler on the I/O thread, up to
\* lock.unlock(): with the guard held the handler is copied if it is set
CopyHandler(r) ==
    /\ r \in mode.live
    /\ sup[r].phase = "open"
    /\ sup[r].handler_copy = 0
    /\ link[r].authentication_done
    /\ \E id \in link[r].event_subscription_ids_to_objects :
          /\ link[r].subscriptions[id].name \in link[r].active_incoming_events
          /\ link[r].subscriptions[id].handler_function
          /\ Apply(r, "copy_handler", NoMsg,
                   link[r].subscriptions[id].name, id, Ok(link[r]), 0,
                   [sup[r] EXCEPT !.handler_copy = id])
    /\ UNCHANGED <<net, mode, ctx, srv, stk>>

\* event_subscription::asio_cb_call_handler from handler_copy(_data) on:
\* the copy is called without the guard, then the guard is taken again
CallHandlerCopy(r) ==
    /\ r \in mode.live
    /\ sup[r].handler_copy # 0
    /\ LET id == sup[r].handler_copy
       IN  Apply(r, "asio_cb_call_handler", NoMsg,
                 link[r].subscriptions[id].name, id,
                 [Ok(link[r]) EXCEPT !.calls = <<id>>], 0,
                 [sup[r] EXCEPT !.handler_copy = 0])
    /\ UNCHANGED <<net, mode, ctx, srv, stk>>

\* server::initialize that does not look at server_state
initialize_again(s, fail) ==
    IF fail THEN [s EXCEPT !.ex = "socket_error"]
    ELSE [s EXCEPT !.server_state = INITIALIZED, !.ex = "none"]

\* server::initialize; fail: websocketpp throws while the socket server is
\* set up
initialize(s, fail) ==
    IF s.server_state # UNINITIALIZED
    THEN [s EXCEPT !.ex = "initialization_error"]
    ELSE IF fail THEN [s EXCEPT !.ex = "socket_error"]
    ELSE [s EXCEPT !.server_state = INITIALIZED, !.ex = "none"]

\* server::run up to the call of socket_server.run(); fail: listen() or
\* start_accept() throws
run_start(s, fail) ==
    IF s.server_state = UNINITIALIZED THEN [s EXCEPT !.ex = "launch_error"]
    ELSE IF s.server_state # INITIALIZED THEN [s EXCEPT !.ex = "launch_error"]
    ELSE IF fail THEN [s EXCEPT !.server_state = FAILED,
                                !.ex = "socket_error"]
    ELSE [s EXCEPT !.server_state = RUNNING, !.serving = TRUE,
                   !.ex = "none"]

\* server::run from the return of socket_server.run() on; fail: it throws
run_end(s, fail) ==
    IF fail THEN [s EXCEPT !.server_state = FAILED, !.serving = FALSE,
                           !.ex = "socket_error"]
    ELSE [s EXCEPT !.server_state = STOPPED, !.serving = FALSE,
                   !.ex = "none"]

\* server::stop; fail: stop_listening() throws
stop(s, fail) ==
    IF s.server_state # RUNNING THEN [s EXCEPT !.ex = "none"]
    ELSE IF fail THEN [s EXCEPT !.ex = "socket_error"]
    ELSE [s EXCEPT !.ex = "none"]

\* a call of server::initialize
Initialize ==
    /\ \E fail \in BOOLEAN :
          srv' = [initialize(srv, fail) EXCEPT !.op = "initialize",
                                              !.pre = srv.server_state]
    /\ UNCHANGED <<link, sup, sent, net, last, mode, ctx, stk>>

\* a call of server::run, which returns at once when it throws
Run ==
    /\ \E fail \in BOOLEAN :
          srv' = [run_start(srv, fail) EXCEPT !.op = "run",
                                             !.pre = srv.server_state]
    /\ UNCHANGED <<link, sup, sent, net, last, mode, ctx, stk>>

\* socket_server.run() returns or throws inside server::run
RunReturns ==
    /\ srv.serving
    /\ \E fail \in BOOLEAN :
          srv' = [run_end(srv, fail) EXCEPT !.op = "run_end",
                                           !.pre = srv.server_state]
    /\ UNCHANGED <<link, sup, sent, net, last, mode, ctx, stk>>

\* a call of server::stop: every open connection is closed with
\* close_connection when the server is running
Stop ==
    /\ \E fail \in BOOLEAN :
          /\ srv' = [stop(srv, fail) EXCEPT !.op = "stop",
                                            !.pre = srv.server_state]
          /\ sup' = IF srv.server_state # RUNNING \/ fail THEN sup
                    ELSE [r \in Roles |->
                            IF r \in mode.live /\ sup[r].phase = "open"
                            THEN cancel_communication(sup[r])
                            ELSE sup[r]]
    /\ UNCHANGED <<link, sent, net, last, mode, ctx, stk>>

\* server::on_open, which only acts while the server is running
Accept(r) ==
    /\ srv.server_state = RUNNING
    /\ srv.serving
    /\ OnOpen(r)

\* server::on_close, which only acts while the server is running
Disconnect(r) ==
    /\ srv.server_state = RUNNING
    /\ srv.serving
    /\ OnClose(r)

\* static_stack::full that only reports a stack beyond its capacity
full_beyond(s) == s.current_len > Nmax

\* static_stack::full
full(s) == s.current_len >= Nmax

\* static_stack::empty
empty(s) == s.current_len = 0

\* static_stack::emplace: the element is constructed in the buffer at
\* current_len, which is then incremented; ret tells whether the iterator
\* returned points to a new element
emplace(s, x) ==
    IF full(s)
    THEN [s EXCEPT !.overflow_flag = TRUE, !.ret = FALSE]
    ELSE [s EXCEPT !.element_buffer[s.current_len + 1] = x,
                   !.current_len = @ + 1, !.ret = TRUE]

\* static_stack::push
push(s, x) == emplace(s, x)

\* static_stack::pop
pop(s) ==
    IF empty(s) THEN [s EXCEPT !.ret = FALSE]
    ELSE [s EXCEPT !.current_len = @ - 1, !.ret = TRUE]

\* static_stack::clear_overflow
clear_overflow(s) == [s EXCEPT !.overflow_flag = FALSE, !.ret = FALSE]

\* the members of a static_stack
Members(s) ==
    [element_buffer |-> s.element_buffer, current_len |-> s.current_len,
     overflow_flag |-> s.overflow_flag]

\* an operation on the stack with result s
StackOp(op, x, s) ==
    /\ stk' = [s EXCEPT !.op = op, !.arg = x, !.pre = Members(stk)]
    /\ UNCHANGED <<link, sup, sent, net, last, mode, ctx, srv>>

Push == \E x \in Values : StackOp("push", x, push(stk, x))

Emplace == \E x \in Values : StackOp("emplace", x, emplace(stk, x))

Pop == StackOp("pop", 0, pop(stk))

ClearOverflow == StackOp("clear_overflow", 0, clear_overflow(stk))

\* the elements of a stack, oldest first
Elements(s) == [i \in 1..s.current_len |-> s.element_buffer[i]]

\* the sequences of at most n values
Seqs(n) == UNION {[1..k -> Values] : k \in 0..n}

\* a static_stack of another capacity, or of the same, that holds the
\* elements of seq
StackOf(cap, seq, flag) ==
    [element_buffer |-> [i \in 1..cap |-> IF i <= Len(seq) THEN seq[i] ELSE 0],
     current_len |-> Len(seq), overflow_flag |-> flag]

\* the stacks a stack is copied or moved from: smaller, equal and larger
\* capacity, overflow flag set or not
OtherStacks ==
    UNION {{StackOf(cap, seq, flag) : seq \in Seqs(cap), flag \in BOOLEAN} :
              cap \in {Nmax - 1, Nmax, Nmax + 1}}

\* the loop of static_stack(_Iter, _Iter) and of
\* static_stack(std::initializer_list) from element i on: emplace, and stop
\* when the overflow flag is set
RECURSIVE range_construct(_, _, _)
range_construct(s, seq, i) ==
    IF i > Len(seq) THEN s
    ELSE LET s1 == emplace(s, seq[i])
         IN  IF s1.overflow_flag THEN s1
             ELSE range_construct(s1, seq, i + 1)

\* copy construction that always goes through the constructor template
copy_construct_template(other) ==
    range_construct(NewStack, Elements(other), 1)

\* static_stack<_T, _Nmax> constructed from an lvalue static_stack<_T,
\* _ONmax>: the constructor template static_stack(const static_stack<_T,
\* _ONmax> &) is chosen when _ONmax differs from _Nmax; for _ONmax = _Nmax
\* the implicitly declared copy constructor, which a template never
\* replaces, is the better match and copies the members
copy_construct(other) ==
    IF Len(other.element_buffer) = Nmax
    THEN [NewStack EXCEPT !.element_buffer = other.element_buffer,
                          !.current_len = other.current_len,
                          !.overflow_flag = other.overflow_flag]
    ELSE range_construct(NewStack, Elements(other), 1)

\* the loop of static_stack(static_stack<_T, _ONmax> &&) from element i on
RECURSIVE move_construct(_, _, _)
move_construct(s, seq, i) ==
    IF i > Len(seq) THEN s
    ELSE move_construct(IF ~s.overflow_flag THEN emplace(s, seq[i]) ELSE s,
                        seq, i + 1)

\* a stack is constructed from a source; other_after is the source afterwards
Construct(op, other, s, after) ==
    /\ stk' = [s EXCEPT !.op = op, !.other = other, !.other_after = after]
    /\ UNCHANGED <<link, sup, sent, net, last, mode, ctx, srv>>

ConstructRange ==
    \E seq \in Seqs(Nmax + 1), op \in {"range", "initializer_list"} :
        Construct(op, seq, range_construct(NewStack, seq, 1), seq)

ConstructCopy ==
    \E other \in OtherStacks :
        Construct("copy", other, copy_construct(other), other)

ConstructMove ==
    \E other \in OtherStacks :
        Construct("move", other,
                  move_construct(NewStack, Elements(other), 1),
                  [other EXCEPT !.current_len = 0])

\* tracking_mutex::locked_by_caller that never recognizes the caller
locked_by_caller_never(t) == FALSE

\* tracking_mutex::locked_by_caller
locked_by_caller(t) == ctx.m_holder = t

\* a thread that holds no guard object enters the class tree:
\* ct_context::get_lock up to the call of std::mutex::lock
GetLock(t) ==
    /\ ctx.pc[t] = "idle"
    /\ ctx.locks[t] = <<>>
    /\ ctx' = [ctx EXCEPT !.pc[t] = "lock", !.soft[t] = FALSE]
    /\ UNCHANGED <<link, sup, sent, net, last, mode, srv, stk>>

\* ct_context::get_soft_lock: an empty lock object is returned when the
\* caller holds the guard, otherwise the guard is locked
GetSoftLock(t) ==
    /\ ctx.pc[t] = "idle"
    /\ Len(ctx.locks[t]) < MaxDepth
    /\ ctx' = IF locked_by_caller(t)
              THEN [ctx EXCEPT !.locks[t] = Append(@, FALSE),
                               !.soft[t] = TRUE]
              ELSE [ctx EXCEPT !.pc[t] = "lock", !.soft[t] = TRUE]
    /\ UNCHANGED <<link, sup, sent, net, last, mode, srv, stk>>

\* tracking_mutex::lock: std::mutex::lock returns once the mutex is free
MutexLock(t) ==
    /\ ctx.pc[t] = "lock"
    /\ ctx.owner = "none"
    /\ ctx' = [ctx EXCEPT !.owner = t, !.pc[t] = "locked"]
    /\ UNCHANGED <<link, sup, sent, net, last, mode, srv, stk>>

\* tracking_mutex::lock: m_holder is set, the owning lock object is returned
SetHolder(t) ==
    /\ ctx.pc[t] = "locked"
    /\ ctx' = [ctx EXCEPT !.m_holder = t, !.pc[t] = "idle",
                          !.locks[t] = Append(@, TRUE)]
    /\ UNCHANGED <<link, sup, sent, net, last, mode, srv, stk>>

\* the innermost lock object of a thread goes out of scope: an owning one
\* calls tracking_mutex::unlock, which first clears m_holder
Release(t) ==
    /\ ctx.pc[t] = "idle"
    /\ ctx.locks[t] # <<>>
    /\ LET n == Len(ctx.locks[t])
       IN  ctx' = IF ctx.locks[t][n]
                  THEN [ctx EXCEPT !.locks[t] = SubSeq(@, 1, n - 1),
                                   !.m_holder = "none",
                                   !.pc[t] = "unlock"]
                  ELSE [ctx EXCEPT !.locks[t] = SubSeq(@, 1, n - 1)]
    /\ UNCHANGED <<link, sup, sent, net, last, mode, srv, stk>>

\* tracking_mutex::unlock: std::mutex::unlock
MutexUnlock(t) ==
    /\ ctx.pc[t] = "unlock"
    /\ ctx' = [ctx EXCEPT !.owner = "none", !.pc[t] = "idle"]
    /\ UNCHANGED <<link, sup, sent, net, last, mode, srv, stk>>

\* the tids the peer answers with: the tid of the link's auth, those of its
\* first two calls when nothing else is sent, and one of the peer's own
ResponseTids(r) == {k * link[r].tid_step_value : k \in {-1, 1, 2, 3}}

\* the peer answers a function call, answers it again, or answers a call
\* that was never made
OnCallResponse(r) ==
    /\ r \in mode.live /\ ~mode.pair
    /\ sup[r].phase = "open"
    /\ sup[r].inbound < MaxCallInbound
    /\ sup[r].close_codes = {} \/ sup[r].late < MaxLate
    /\ \E ty \in {"func_err", "func_result"}, tid \in ResponseTids(r) :
          LET msg == [NoMsg EXCEPT !.type = ty, !.tid = tid]
          IN  \E env \in Envs(link[r], msg) : on_message(r, msg, env)

\* one link that calls functions of a peer that follows the handshake
NextCalls ==
    \E r \in Roles :
        \/ OnOpen(r)
        \/ OnHandshakeMessage(r)
        \/ OnCallResponse(r)
        \/ OnClose(r)
        \/ CallFunction(r)

SpecCalls == Init /\ [][NextCalls]_vars

\* one connection with its keepalive timer, closed by the server, by the
\* transport or by a pong timeout, while the user calls functions
NextKeepalive ==
    \E r \in Roles :
        \/ OnOpen(r)
        \/ CallFunction(r)
        \/ HandlePingTimer(r)
        \/ OnPongReceived(r)
        \/ OnPongTimeout(r)
        \/ CloseConnection(r)
        \/ OnClose(r)

SpecKeepalive == Init /\ [][NextKeepalive]_vars

\* one link whose listeners are called through asio_cb_call_handler while
\* user threads register and cancel subscriptions
NextInFlight ==
    \E r \in Roles :
        \/ OnOpen(r)
        \/ OnHandshakeMessage(r)
        \/ AddListener(r, MaxListeners)
        \/ Cancel(r)
        \/ CopyHandler(r)
        \/ CallHandlerCopy(r)
        \/ OnClose(r)

SpecInFlight == Init /\ [][NextInFlight]_vars

\* the life of a server: the calls of its public methods by any thread and
\* the connections it accepts while it runs
NextServer ==
    \/ Initialize
    \/ Run
    \/ RunReturns
    \/ Stop
    \/ \E r \in Roles : Accept(r) \/ Disconnect(r)

SpecServer == Init /\ [][NextServer]_vars

\* any sequence of operations on one static_stack
NextStack ==
    \/ Push
    \/ Emplace
    \/ Pop
    \/ ClearOverflow

SpecStack == Init /\ [][NextStack]_vars

\* static_stacks constructed from sources of every kind
NextConstruct ==
    \/ ConstructRange
    \/ ConstructCopy
    \/ ConstructMove

SpecConstruct == Init /\ [][NextConstruct]_vars

\* the threads that take and release the master guard
NextGuard ==
    \E t \in Threads :
        \/ GetLock(t)
        \/ GetSoftLock(t)
        \/ MutexLock(t)
        \/ SetHolder(t)
        \/ Release(t)
        \/ MutexUnlock(t)

SpecGuard == Init /\ [][NextGuard]_vars

-----------------------------------------------------------------------------
(* Properties *)

\* the message is handled by a link whose handshake is not complete
PreAuthMessage ==
    /\ last.op = "on_message"
    /\ ~last.pre.authentication_done

\* the message is handled by a link whose handshake is complete
PostAuthMessage ==
    /\ last.op = "on_message"
    /\ last.pre.authentication_done

\* the handler that ran last left the link as it was
LinkUnchanged == link[last.role] = last.pre

\* authentication_done is set exactly when both acknowledge flags are, and
\* on_authentication_done has been entered once if it is set, never otherwise
C1_Flags ==
    \A r \in Roles :
        /\ link[r].authentication_done
              <=> (link[r].auth_ack_sent /\ link[r].auth_ack_received)
        /\ link[r].auth_done_entries
              = IF link[r].authentication_done THEN 1 ELSE 0

\* a step clears none of the three flags
C1_SetOnly ==
    \A r \in Roles :
        /\ link[r].authentication_done => link'[r].authentication_done
        /\ link[r].auth_ack_sent => link'[r].auth_ack_sent
        /\ link[r].auth_ack_received => link'[r].auth_ack_received

\* C1: a link is authenticated exactly when auth_ack_sent and
\* auth_ack_received are both set, on_authentication_done is entered at most
\* once (and exactly once when authenticated), and none of the three flags is
\* ever cleared
C1_AuthenticatedIffBothAcks == [](C1_Flags) /\ [][C1_SetOnly]_vars

\* a link that is authenticated has handled a third message
C1_Witness ==
    \E r \in Roles :
        /\ link[r].authentication_done
        /\ sup[r].inbound = 3
        /\ last.op = "on_message"

\* the two links have equal link versions and each provides the events and
\* functions the other requires (both announce proto_version::current)
Compatible ==
    /\ mode.pair
    /\ link["server"].link_version = link["client"].link_version
    /\ \A r \in Roles :
          /\ link[r].available_incoming_events
                 \subseteq link[Peer(r)].available_outgoing_events
          /\ link[r].available_outgoing_functions
                 \subseteq
                 link[Peer(r)].available_incoming_function_names_to_functions

\* the messages of the given type in a log
OfType(log, type) == SelectSeq(log, LAMBDA m : m.type = type)

\* neither side closes, the server's auth carries tid 1 and the client's -1,
\* and an auth_ack carries the tid of the peer's auth
C2_Safe ==
    Compatible =>
        \A r \in Roles :
            /\ sup[r].close_codes = {}
            /\ \A i \in 1..Len(OfType(sent[r], "auth")) :
                  OfType(sent[r], "auth")[i].tid
                      = IF r = "server" THEN 1 ELSE -1
            /\ \A i \in 1..Len(OfType(sent[r], "auth_ack")) :
                  /\ OfType(sent[Peer(r)], "auth") # <<>>
                  /\ OfType(sent[r], "auth_ack")[i].tid
                        = OfType(sent[Peer(r)], "auth")[1].tid

\* both links are authenticated
BothAuthenticated == \A r \in Roles : link[r].authentication_done

\* C2: a compatible server link and client link joined by a reliable FIFO
\* channel both become authenticated under fair delivery (unless a listener
\* defined meanwhile adds a requirement the peer does not satisfy), neither
\* closes the connection, the server's auth carries tid 1, the client's
\* tid -1, and each auth_ack echoes the tid of the peer's auth
C2_HappyHandshake ==
    [](C2_Safe) /\ (Compatible ~> (BothAuthenticated \/ ~Compatible))

\* a compatible pair with different catalogs has completed the handshake
C2_Witness ==
    /\ Compatible
    /\ BothAuthenticated
    /\ link["server"].available_incoming_events
           # link["client"].available_incoming_events
    /\ \A r \in Roles : Len(OfType(sent[r], "auth_ack")) = 1

\* C3: before authentication is done a message of a known type other than
\* auth and auth_ack changes nothing, sends nothing, calls no listener and
\* closes with 3007; after authentication the same holds for auth and
\* auth_ack
C3_HandshakeGate ==
    (/\ last.op = "on_message"
     /\ last.msg.type \in MsgTypes
     /\ last.pre.authentication_done <=> last.msg.type \in {"auth", "auth_ack"})
    => /\ last.close = PROTOCOL_ERROR
       /\ LinkUnchanged
       /\ last.out = <<>>
       /\ last.calls = <<>>

\* an authenticated link has received an auth
C3_Witness ==
    /\ PostAuthMessage
    /\ last.msg.type = "auth"
    /\ last.close = PROTOCOL_ERROR

\* the checks of the handshake, as the claims state them
ProtoCheckFails(msg) ==
    VersionGreater(current, msg.proto_version)
        /\ msg.proto_version \notin compatible_versions

LinkVersionCheckFails(L, msg) == msg.link_version # L.link_version

EventCheckFails(L, msg) == ~(L.available_incoming_events \subseteq msg.events)

FunctionCheckFails(L, msg) ==
    ~(L.available_outgoing_functions \subseteq msg.functions)

FirstFailingCheck(L, msg) ==
    IF ProtoCheckFails(msg) THEN 3001
    ELSE IF LinkVersionCheckFails(L, msg) THEN 3002
    ELSE IF EventCheckFails(L, msg) THEN 3003
    ELSE IF FunctionCheckFails(L, msg) THEN 3005
    ELSE 0

\* C4: a well-formed auth is answered with the close code of the first
\* failing check in the order protocol version, link version, events,
\* functions, and with no close when every check passes
C4_FirstFailingCheck ==
    (PreAuthMessage /\ last.msg.type = "auth" /\ last.msg.wellformed)
    => last.close = FirstFailingCheck(last.pre, last.msg)

\* an auth that fails the link version, the event and the function check
C4_Witness ==
    /\ PreAuthMessage /\ last.msg.type = "auth" /\ last.msg.wellformed
    /\ ~ProtoCheckFails(last.msg)
    /\ LinkVersionCheckFails(last.pre, last.msg)
    /\ EventCheckFails(last.pre, last.msg)
    /\ FunctionCheckFails(last.pre, last.msg)
    /\ last.close = 3002

\* the auth_ack messages among the messages a handler has sent
AuthAcks(out) == SelectSeq(out, LAMBDA m : m.type = "auth_ack")

\* C5: an auth is answered with an auth_ack, and sets auth_ack_sent, iff every
\* check passes; the auth_ack is the first message sent, the only auth_ack,
\* and carries the tid of the auth
C5_AckIffChecksPass ==
    (PreAuthMessage /\ last.msg.type = "auth")
    => IF last.msg.wellformed /\ FirstFailingCheck(last.pre, last.msg) = 0
       THEN /\ Len(AuthAcks(last.out)) = 1
            /\ last.out[1].type = "auth_ack"
            /\ last.out[1].tid = last.msg.tid
            /\ link[last.role].auth_ack_sent
       ELSE /\ AuthAcks(last.out) = <<>>
            /\ link[last.role].auth_ack_sent = last.pre.auth_ack_sent

\* an accepted auth that carries another tid than a peer's first one
C5_Witness ==
    /\ PreAuthMessage /\ last.msg.type = "auth"
    /\ last.msg.tid = -3 * last.pre.tid_step_value
    /\ last.out # <<>>
    /\ link[last.role].auth_ack_sent

\* the tids of the messages a link originates, in the order they are sent
OriginatedTids(log) ==
    LET orig == SelectSeq(log, LAMBDA m : m.type \in
                   {"auth", "evt_sub", "evt_unsub", "evt_emit", "func_call"})
    IN  [i \in 1..Len(orig) |-> orig[i].tid]

\* C6: the k-th message a link originates carries tid k (server) or -k
\* (client), and the counter holds the next tid of the series
C6_TidSeries ==
    \A r \in Roles :
        LET tids == OriginatedTids(sent[r])
        IN  /\ \A k \in 1..Len(tids) : tids[k] = k * link[r].tid_step_value
            /\ link[r].tid_counter = (Len(tids) + 1) * link[r].tid_step_value
            /\ link[r].tid_step_value = IF r = "server" THEN 1 ELSE -1

\* a link has originated four messages, an evt_emit among them
C6_Witness ==
    \E r \in Roles :
        /\ Len(OriginatedTids(sent[r])) >= 4
        /\ \E i \in 1..Len(sent[r]) : sent[r][i].type = "evt_emit"

\* the tid the handler that ran last has called create_transaction with
CreatedTid ==
    IF last.op = "create_transaction" THEN last.id ELSE last.pre.tid_counter

\* C7: no two active transactions of a link share a tid; a create with a tid
\* that is active throws duplicate_transaction_error and leaves the registry
\* as it was, and a create with any other tid registers the transaction
C7_UniqueTids ==
    /\ \A r \in Roles : \A t, u \in link[r].active_transactions :
          t.id = u.id => t = u
    /\ last.op \in {"create_transaction", "call", "on_open"} =>
          IF \E t \in last.pre.active_transactions : t.id = CreatedTid
          THEN /\ last.ex = "duplicate_transaction_error"
               /\ link[last.role].active_transactions
                     = last.pre.active_transactions
               /\ last.out = <<>>
          ELSE /\ last.ex = "none"
               /\ \E t \in link[last.role].active_transactions :
                     /\ t.id = CreatedTid
                     /\ link[last.role].active_transactions
                           = last.pre.active_transactions \cup {t}

\* link::call has failed on a tid that was active, in a registry of two
C7_Witness ==
    /\ last.op = "call"
    /\ last.ex = "duplicate_transaction_error"
    /\ Cardinality(link[last.role].active_transactions) >= 2

\* C8: an event is in active_incoming_events exactly if
\* event_names_to_subscription_id holds an entry for it
C8_ActiveIffSubscribed ==
    \A r \in Roles : \A name \in Events \cup {UnknownName} :
        name \in link[r].active_incoming_events
            <=> equal_range(link[r], name) # {}

\* the only listener of one event has been cancelled after authentication
\* while another event keeps a listener that was registered later
C8_Witness ==
    /\ last.op = "cancel"
    /\ last.pre.authentication_done
    /\ last.pre.subscriptions[last.id].cancel_function
    /\ last.arg \notin link[last.role].active_incoming_events
    /\ \E id \in link[last.role].event_subscription_ids_to_objects :
          /\ link[last.role].subscriptions[id].name # last.arg
          /\ id > last.id

\* the evt_sub and evt_unsub messages for an event in a log
SubTraffic(log, name) ==
    SelectSeq(log, LAMBDA m :
        m.type \in {"evt_sub", "evt_unsub"} /\ m.name = name)

\* evt_sub, evt_unsub, evt_sub, ...
Alternates(s) ==
    \A i \in 1..Len(s) :
        s[i].type = IF i % 2 = 1 THEN "evt_sub" ELSE "evt_unsub"

\* the handler that ran last has sent one message of the type for the event
SentOne(type) ==
    /\ Len(last.out) = 1
    /\ last.out[1].type = type
    /\ last.out[1].name = last.arg

\* C9: on an authenticated link a registration sends one evt_sub iff the
\* event had no listener and nothing otherwise, a cancellation sends one
\* evt_unsub iff the event has no other listener and nothing otherwise, and
\* the evt_sub and evt_unsub messages of an event alternate, evt_sub first
C9_SubUnsubOnEdges ==
    /\ (last.op = "add_event_subscription" /\ last.pre.authentication_done)
          => IF equal_range(last.pre, last.arg) = {}
             THEN SentOne("evt_sub") ELSE last.out = <<>>
    /\ (last.op = "cancel" /\ last.pre.authentication_done)
          => IF /\ last.pre.subscriptions[last.id].cancel_function
                /\ equal_range(last.pre, last.arg) = {last.id}
             THEN SentOne("evt_unsub") ELSE last.out = <<>>
    /\ \A r \in Roles : \A name \in Events \cup {UnknownName} :
          Alternates(SubTraffic(sent[r], name))

\* after an evt_sub, an evt_unsub and a second evt_sub for an event one of
\* its two listeners is cancelled without a message
C9_Witness ==
    /\ last.op = "cancel"
    /\ last.pre.authentication_done
    /\ last.pre.subscriptions[last.id].cancel_function
    /\ last.out = <<>>
    /\ Len(SubTraffic(sent[last.role], last.arg)) = 3

\* the handler that ran last has completed the handshake
EntersAuthenticated ==
    /\ last.op = "on_message"
    /\ ~last.pre.authentication_done
    /\ link[last.role].authentication_done

\* C10: before authentication a registration or cancellation sends nothing;
\* the handler that completes the handshake sends one evt_sub for each event
\* in active_incoming_events, none for another event, and no evt_unsub
C10_QueuedSubscriptions ==
    /\ (last.op \in {"add_event_subscription", "cancel"}
            /\ ~last.pre.authentication_done)
          => last.out = <<>>
    /\ EntersAuthenticated =>
          \A name \in Events \cup {UnknownName} :
              /\ OfType(SubTraffic(last.out, name), "evt_unsub") = <<>>
              /\ Len(SubTraffic(last.out, name))
                    = IF name \in last.pre.active_incoming_events
                      THEN 1 ELSE 0

\* the handshake completes on a link that has one event with a listener and
\* one event whose only listener has been cancelled
C10_Witness ==
    /\ EntersAuthenticated
    /\ Cardinality(last.pre.active_incoming_events) = 1
    /\ \E id \in 1..Len(last.pre.subscriptions) :
          /\ ~last.pre.subscriptions[id].cancel_function
          /\ last.pre.subscriptions[id].name
                \notin last.pre.active_incoming_events

\* the cancel function of a subscription has run
Canceled(r, id) == link[r].subscriptions[id].cancel_runs = 1

\* C11: over any sequence of cancel() calls and handle drops the cancel
\* function of a subscription runs at most once, and it has run exactly once
\* after a cancel or drop on a link that is alive; a cancel or drop of a
\* subscription that is already canceled changes nothing, sends nothing and
\* raises no error
C11_CancelOnce ==
    /\ \A r \in Roles : \A id \in 1..Len(link[r].subscriptions) :
           link[r].subscriptions[id].cancel_runs <= 1
    /\ last.op = "cancel" =>
           /\ last.ex = "none"
           /\ sup[last.role].phase # "closed" => Canceled(last.role, last.id)
           /\ ~last.pre.subscriptions[last.id].cancel_function =>
                  LinkUnchanged /\ last.out = <<>>

\* a subscription that has been canceled on a live, authenticated link is
\* canceled again
C11_Witness ==
    /\ last.op = "cancel"
    /\ sup[last.role].phase = "open"
    /\ link[last.role].authentication_done
    /\ last.pre.subscriptions[last.id].cancel_runs = 1
    /\ Canceled(last.role, last.id)

\* the evt_emit messages among the messages of a handler
EmitsOf(out) == {i \in DOMAIN out : out[i].type = "evt_emit"}

\* C12: every evt_emit a link sends names an event that is, when it is sent,
\* both defined as outgoing and subscribed by the peer; emitting a defined
\* event the peer has not subscribed sends nothing, takes no tid and changes
\* no state
C12_EmitOnlySubscribed ==
    /\ \A i \in EmitsOf(last.out) :
          /\ last.out[i].name \in last.pre.available_outgoing_events
          /\ last.out[i].name \in last.pre.active_outgoing_events
    /\ /\ last.op = "emit"
       /\ last.arg \in last.pre.available_outgoing_events
       /\ last.arg \notin last.pre.active_outgoing_events
       => /\ last.out = <<>>
          /\ last.ex = "none"
          /\ LinkUnchanged

\* an event the peer has subscribed is emitted
C12_Witness ==
    /\ last.op = "emit"
    /\ last.arg \in last.pre.active_outgoing_events
    /\ EmitsOf(last.out) # {}
    /\ EmitsOf(sent[last.role]) # {}

\* a defined event the peer has not subscribed is emitted after the handshake
C12_SilentEmit ==
    /\ last.op = "emit"
    /\ last.pre.authentication_done
    /\ last.arg \in last.pre.available_outgoing_events
    /\ last.arg \notin last.pre.active_outgoing_events

\* C13: emitting an event that is not defined as outgoing raises
\* invalid_outgoing_event_error to the caller, sends nothing and leaves the
\* whole link, the tid counter included, as it was, before and after the
\* handshake alike
C13_UndefinedEmitRejected ==
    /\ last.op = "emit"
    /\ last.arg \notin last.pre.available_outgoing_events
    => /\ last.ex = "invalid_outgoing_event_error"
       /\ last.out = <<>>
       /\ last.close = 0
       /\ LinkUnchanged
       /\ link[last.role].tid_counter = last.pre.tid_counter

\* an undefined event is emitted on an authenticated link that has an active
\* outgoing event
C13_Witness ==
    /\ last.op = "emit"
    /\ last.arg \notin last.pre.available_outgoing_events
    /\ last.pre.authentication_done
    /\ last.ex = "invalid_outgoing_event_error"

\* an undefined event is emitted before the handshake is complete
C13_WitnessPreAuth ==
    /\ last.op = "emit"
    /\ last.arg \notin last.pre.available_outgoing_events
    /\ ~last.pre.authentication_done
    /\ last.ex = "invalid_outgoing_event_error"

\* an evt_emit for an event with listeners is handled after the handshake
FanOut ==
    /\ PostAuthMessage
    /\ last.msg.type = "evt_emit"
    /\ last.msg.wellformed
    /\ last.msg.name \in last.pre.active_incoming_events
    /\ equal_range(last.pre, last.msg.name) # {}

\* the listeners of the event of the message, in registration order
RECURSIVE Registered(_, _, _)
Registered(L, name, id) ==
    IF id > L.sub_id_counter THEN <<>>
    ELSE IF id \in equal_range(L, name)
    THEN <<id>> \o Registered(L, name, id + 1)
    ELSE Registered(L, name, id + 1)

\* C14: for an inbound evt_emit of an active event, when no handler fails,
\* every listener registered for the event is invoked exactly once, in the
\* order of registration
C14_RegistrationOrder ==
    FanOut /\ last.ex = "none" =>
        last.calls = Registered(last.pre, last.msg.name, 1)

\* C15: when a handler fails during the fan-out of an evt_emit, the other
\* listeners of the event are still invoked and the connection is not closed
C15_FailureContained ==
    FanOut =>
        /\ \A id \in equal_range(last.pre, last.msg.name) :
              \E i \in DOMAIN last.calls : last.calls[i] = id
        /\ last.close = 0

\* a func_call is handled after the handshake
FuncCall ==
    /\ PostAuthMessage
    /\ last.msg.type = "func_call"
    /\ last.msg.wellformed

\* the function of the func_call is not defined as incoming
UnknownFunction ==
    last.msg.name \notin
        last.pre.available_incoming_function_names_to_functions

FuncErrs(out, tid) ==
    {i \in DOMAIN out : out[i].type = "func_err" /\ out[i].tid = tid}

C18_OneResponse ==
    FuncCall /\ ~UnknownFunction =>
        /\ last.calls = <<0>>
        /\ Len(last.out) = 1
        /\ last.out[1].tid = last.msg.tid
        /\ last.out[1].type =
              IF last.thrown = <<>> THEN "func_result" ELSE "func_err"
        /\ last.ex = "none"
        /\ last.close = 0
        /\ LinkUnchanged

\* the handler of a called function throws on an open connection
C18_Witness ==
    /\ FuncCall
    /\ last.thrown # <<>>
    /\ FuncErrs(last.out, last.msg.tid) # {}
    /\ FuncErrs(sent[last.role], last.msg.tid) # {}
    /\ sup[last.role].close_codes = {}

\* the handler of a called function returns
C18_WitnessResult ==
    /\ FuncCall
    /\ last.thrown = <<>>
    /\ Len(last.out) = 1
    /\ last.out[1].type = "func_result"

\* the transaction link::call registers for the tid
CallTransaction(tid) ==
    [id |-> tid, kind |-> transaction_function_call_t, direction |-> OUTGOING]

\* a func_result or func_err is handled after the handshake
FuncResponse ==
    /\ PostAuthMessage
    /\ last.msg.type \in {"func_result", "func_err"}
    /\ last.msg.wellformed

\* the state a response of the given type leaves the future in
Completion(type) == IF type = "func_result" THEN "value" ELSE "error"

\* C19: call() takes a fresh tid, registers one outgoing function-call
\* transaction under it and sends one func_call with it; a func_result or
\* func_err with the tid of a pending call completes the future of the call
\* and removes the transaction, and a response with any other tid, that of a
\* call already answered included, completes nothing: a future is pending
\* exactly while its transaction is active
C19_CallCompletesOnce ==
    /\ last.op = "call" =>
          LET tid == last.pre.tid_counter
          IN  /\ last.ex = "none"
              /\ ~\E t \in last.pre.active_transactions : t.id = tid
              /\ ~\E f \in last.pre.futures : f[1] = tid
              /\ Len(last.out) = 1
              /\ last.out[1].type = "func_call"
              /\ last.out[1].tid = tid
              /\ last.out[1].name = last.arg
              /\ link[last.role].active_transactions =
                     last.pre.active_transactions \cup {CallTransaction(tid)}
              /\ link[last.role].futures =
                     last.pre.futures \cup {<<tid, "pending">>}
    /\ FuncResponse =>
          LET tid == last.msg.tid
          IN  IF <<tid, "pending">> \in last.pre.futures
              THEN /\ last.ex = "none"
                   /\ link[last.role].futures =
                          (last.pre.futures \ {<<tid, "pending">>})
                              \cup {<<tid, Completion(last.msg.type)>>}
                   /\ link[last.role].active_transactions =
                          last.pre.active_transactions \ {CallTransaction(tid)}
              ELSE /\ last.ex = "invalid_transaction_error"
                   /\ last.close = 0
                   /\ LinkUnchanged
    /\ \A r \in Roles : \A f \in link[r].futures :
          f[2] = "pending" <=> CallTransaction(f[1]) \in link[r].active_transactions

\* a call that has been answered is answered again while another call is
\* pending
C19_Witness ==
    /\ FuncResponse
    /\ \E st \in {"value", "error"} :
          /\ <<last.msg.tid, st>> \in last.pre.futures
          /\ st # Completion(last.msg.type)
    /\ \E f \in link[last.role].futures : f[2] = "pending"
    /\ last.ex = "invalid_transaction_error"

\* the transaction class a response of the given type belongs to
ExpectedKind(type) ==
    IF type = "auth_ack" THEN transaction_auth_t
    ELSE transaction_function_call_t

\* a response is handled whose tid has no active transaction of the class
\* the response belongs to
StrayResponse ==
    /\ last.op = "on_message"
    /\ last.msg.type \in {"auth_ack", "func_result", "func_err"}
    /\ last.msg.wellformed
    /\ ~\E t \in last.pre.active_transactions :
          t.id = last.msg.tid /\ t.kind = ExpectedKind(last.msg.type)

\* the response is handled in the phase of the link that accepts its type
InPhase == last.pre.authentication_done <=> last.msg.type # "auth_ack"

\* the response is dropped: no close, and the link, with its futures, its
\* transactions and its authentication flags, is as it was
Dropped ==
    /\ last.close = 0
    /\ LinkUnchanged
    /\ last.out = <<>>

\* C20 as stated: an auth_ack, func_result or func_err whose tid has no
\* active transaction of the expected class is dropped: the connection is
\* not closed, no future is completed, no transaction is removed and the
\* authentication flags keep their values
C20_StrayResponseDropped == StrayResponse => Dropped

\* C20 amended: an auth_ack handled before the handshake is complete, or a
\* func_result or func_err handled after it, whose tid has no active
\* transaction of the expected class raises invalid_transaction_error and is
\* dropped: the connection is not closed, no future is completed, no
\* transaction is removed and the authentication flags keep their values
C20_StrayResponseDroppedInPhase ==
    StrayResponse /\ InPhase =>
        /\ last.ex = "invalid_transaction_error"
        /\ Dropped

\* an auth_ack arrives again for the auth transaction that the first one
\* has completed, while the auth of the peer is still missing
C20_Witness ==
    /\ StrayResponse /\ InPhase
    /\ last.msg.type = "auth_ack"
    /\ last.msg.tid = last.pre.tid_step_value
    /\ last.pre.auth_ack_received
    /\ last.ex = "invalid_transaction_error"
    /\ sup[last.role].close_codes = {}

\* an auth_ack arrives with the tid of a function-call transaction
C20_WitnessOtherKind ==
    /\ StrayResponse /\ InPhase
    /\ last.msg.type = "auth_ack"
    /\ \E t \in last.pre.active_transactions : t.id = last.msg.tid

\* a func_result arrives with a tid no transaction has
C20_WitnessUnknownTid ==
    /\ StrayResponse /\ InPhase
    /\ last.msg.type = "func_result"
    /\ last.pre.futures # {}

\* the futures of the link that are pending
Pending(L) == {f \in L.futures : f[2] = "pending"}

Supervised == last.op \in {"on_open", "on_message", "on_pong_received"}

\* the name of each close code, as the reason of a close
CodeNames ==
    {<<PROTO_VERSION_INCOMPATIBLE, "proto version incompatible">>,
     <<LINK_VERSION_MISMATCH, "link version mismatch">>,
     <<EVENT_REQUIREMENTS_NOT_SATISFIED, "event requirements not satisfied">>,
     <<DATA_SOURCE_REQUIREMENTS_NOT_SATISFIED,
       "data source requirements not satisfied">>,
     <<FUNCTION_REQUIREMENTS_NOT_SATISFIED,
       "function requirements not satisfied">>,
     <<MALFORMED_MESSAGE, "malformed message">>,
     <<PROTOCOL_ERROR, "protocol error">>,
     <<UNDEFINED_LINK_ERROR, "undefined link error">>}

C22_WitnessTwice ==
    /\ Supervised
    /\ last.ex = "malformed_message_error"
    /\ sup[last.role].close_codes = {PROTOCOL_ERROR, MALFORMED_MESSAGE}

\* the type of the message is no name msg_type_from_string knows
UnknownType ==
    /\ last.op = "on_message"
    /\ last.msg.type \notin MsgTypes \cup {PONG, "unparsable"}
    /\ last.msg.wellformed

\* C23: a well-formed message of an unknown type that arrives before the
\* handshake is complete closes the connection with 3007
C23_UnknownTypeProtocolError ==
    PreAuthMessage /\ UnknownType => last.close = 3007

\* the handlers that cancel communication: close_connection, on_pong_timeout
\* and on_close
Cancelling == {"close_connection", "on_pong_timeout", "on_close"}

\* C24: the cancel-communication flag is set by close_connection, by a pong
\* timeout and by the transport's close, it is never reset, and while it is
\* set no message the link hands to send_message is written to the transport.
C24_CanceledSilences ==
    [][\A r \in Roles :
          /\ sup[r].m_communication_canceled =>
                /\ sup'[r].m_communication_canceled
                /\ sent'[r] = sent[r]
          /\ (last'.op \in Cancelling /\ last'.role = r) =>
                sup'[r].m_communication_canceled]_vars

\* a call made after close_connection, while the handler still exists: the
\* link hands its func_call to send_message
C24_Witness ==
    /\ last.op = "call"
    /\ last.out # <<>>
    /\ sup[last.role].phase = "open"
    /\ sup[last.role].m_communication_canceled
    /\ ~sup[last.role].terminated

\* C25: once communication is canceled no keepalive timer is pending, none
\* becomes pending again and no transport ping is sent, whatever the order
\* of close_connection, on_close, pong timeout, timer expiry and pong is.
C25_NoKeepaliveAfterCancel ==
    \A r \in Roles :
        sup[r].m_communication_canceled =>
            /\ sup[r].m_ping_timer # "pending"
            /\ ~(last.role = r /\ last.op = "handle_ping_timer")

\* C26: destroying a link invalidates every subscription it still holds;
\* afterwards no listener handler is invoked, and cancelling or dropping a
\* handle that is still held does not touch the destroyed link: no table
\* changes, the cancel function does not run and no message is sent.
C26_DestroyedLinkInert ==
    \A r \in Roles :
        sup[r].phase = "closed" =>
            /\ \A i \in 1..Len(link[r].subscriptions) :
                  /\ ~link[r].subscriptions[i].cancel_function
                  /\ ~link[r].subscriptions[i].handler_function
            /\ last.role = r =>
                  /\ last.calls = <<>>
                  /\ last.op # "on_close" =>
                        /\ link[r] = last.pre
                        /\ last.out = <<>>
                        /\ last.ex = "none"

\* the handle of a subscription that was still registered when its link was
\* destroyed is cancelled afterwards
C26_Witness ==
    /\ last.op = "cancel"
    /\ sup[last.role].phase = "closed"
    /\ last.id \in last.pre.event_subscription_ids_to_objects
    /\ last.pre.subscriptions[last.id].cancel_runs = 0

\* the thread holds the guard: it owns the mutex and may run guarded code
Holds(t) == ctx.pc[t] = "idle" /\ ctx.locks[t] # <<>>

\* C27: get_soft_lock waits for the guard only when the calling thread does
\* not hold it, and returns a non-owning lock object otherwise; the caller
\* holds the guard on return in both cases; releasing a lock object that
\* get_soft_lock returned inside an enclosing acquisition does not release
\* that acquisition; at most one thread is inside the guarded region.
C27_SoftLock ==
    \A t \in Threads :
        /\ ctx.pc[t] \in {"lock", "locked"} => ctx.locks[t] = <<>>
        /\ ctx.pc[t] = "lock" => ctx.owner # t
        /\ Holds(t) =>
              /\ ctx.owner = t
              /\ ctx.m_holder = t
              /\ ctx.locks[t][1]
              /\ \A i \in 2..Len(ctx.locks[t]) : ~ctx.locks[t][i]
        /\ \A u \in Threads \ {t} : ~(Holds(t) /\ Holds(u))

\* a thread took a soft lock inside its own acquisition and released it
\* again, while another thread that asked for a soft lock waits for the guard
C27_Witness ==
    \E t \in Threads, u \in Threads :
        /\ t # u
        /\ ctx.locks[t] = <<TRUE, FALSE>>
        /\ ctx.soft[t]
        /\ ctx.pc[u] = "lock"
        /\ ctx.soft[u]

\* C28: once the cancellation of a subscription has completed its handler is
\* not invoked again, not even by a handler call that was in progress on the
\* I/O thread when another thread cancelled.
C28_NoCallAfterCancel ==
    last.op = "asio_cb_call_handler" =>
        /\ last.pre.subscriptions[last.id].cancel_runs = 0
        /\ last.pre.subscriptions[last.id].handler_function

\* the moves UNINITIALIZED -> INITIALIZED -> RUNNING -> {STOPPED, FAILED}
Chain ==
    {<<UNINITIALIZED, INITIALIZED>>, <<INITIALIZED, RUNNING>>,
     <<RUNNING, STOPPED>>, <<RUNNING, FAILED>>}

\* the position of a server state in the life of the server
Rank(state) ==
    CASE state = UNINITIALIZED -> 0
      [] state = INITIALIZED -> 1
      [] state = RUNNING -> 2
      [] OTHER -> 3

\* the last call moved the state only along the given moves and never back;
\* initialize succeeds only from UNINITIALIZED and run only from INITIALIZED,
\* any other call of them throws and leaves the state; stop leaves a server
\* that is not running as it is
ServerLifecycle(moves) ==
    /\ srv.server_state # srv.pre => <<srv.pre, srv.server_state>> \in moves
    /\ Rank(srv.server_state) >= Rank(srv.pre)
    /\ srv.op = "initialize" =>
          /\ srv.ex = "none" =>
                srv.pre = UNINITIALIZED /\ srv.server_state = INITIALIZED
          /\ srv.pre # UNINITIALIZED =>
                srv.ex = "initialization_error" /\ srv.server_state = srv.pre
    /\ srv.op = "run" =>
          /\ srv.ex = "none" =>
                srv.pre = INITIALIZED /\ srv.server_state = RUNNING
          /\ srv.pre # INITIALIZED =>
                srv.ex = "launch_error" /\ srv.server_state = srv.pre
    /\ srv.op = "stop" =>
          /\ srv.server_state = srv.pre
          /\ srv.pre # RUNNING => srv.ex = "none"

\* C29: the server state only moves UNINITIALIZED -> INITIALIZED -> RUNNING
\* -> {STOPPED, FAILED} and never back; initialize() succeeds only from
\* UNINITIALIZED and run() only from INITIALIZED, otherwise they throw
\* initialization_error / launch_error and leave the state; stop() does
\* nothing unless the server is running.
C29_ServerStateChain == ServerLifecycle(Chain)

\* C29 (amended): as above, with the additional move INITIALIZED -> FAILED,
\* taken when run() fails before the server is running.
C29_ServerStateChainOrLaunchFailure ==
    ServerLifecycle(Chain \cup {<<INITIALIZED, FAILED>>})

\* run() called on an initialized server fails to listen
C29_Witness ==
    /\ srv.op = "run"
    /\ srv.pre = INITIALIZED
    /\ srv.server_state = FAILED
    /\ srv.ex = "socket_error"

\* initialize() called a second time, on a server that has stopped
C29_WitnessReinitialize ==
    /\ srv.op = "initialize"
    /\ srv.pre = STOPPED
    /\ srv.ex = "initialization_error"

Pushing == {"push", "emplace"}

\* C30: size() never exceeds Nmax; a push or emplace on a full stack leaves
\* the size and the elements unchanged and sets the overflow flag; the flag,
\* once set, stays set until clear_overflow(); pop() on an empty stack
\* returns false and changes nothing, otherwise it removes the most recently
\* pushed remaining element and returns true.
C30_StackCapacity ==
    /\ stk.current_len \in 0..Nmax
    /\ (stk.op \in Pushing /\ stk.pre.current_len = Nmax) =>
          /\ Elements(stk) = Elements(stk.pre)
          /\ stk.overflow_flag
    /\ (stk.op \in Pushing /\ stk.pre.current_len < Nmax) =>
          /\ Elements(stk) = Append(Elements(stk.pre), stk.arg)
          /\ stk.overflow_flag = stk.pre.overflow_flag
    /\ (stk.pre.overflow_flag /\ stk.op # "clear_overflow") =>
          stk.overflow_flag
    /\ (stk.op = "pop" /\ stk.pre.current_len = 0) =>
          /\ ~stk.ret
          /\ Members(stk) = stk.pre
    /\ (stk.op = "pop" /\ stk.pre.current_len > 0) =>
          /\ stk.ret
          /\ Elements(stk) =
                SubSeq(Elements(stk.pre), 1, stk.pre.current_len - 1)
          /\ stk.overflow_flag = stk.pre.overflow_flag

\* a push on a full stack whose overflow flag was clear
C30_Witness ==
    /\ stk.op \in Pushing
    /\ stk.pre.current_len = Nmax
    /\ ~stk.pre.overflow_flag

\* a pop on a stack that has overflowed and still holds elements
C30_WitnessPop ==
    /\ stk.op = "pop"
    /\ stk.pre.current_len > 1
    /\ stk.pre.overflow_flag
    /\ stk.pre.element_buffer[1] # stk.pre.element_buffer[stk.pre.current_len]

\* the elements of the source a stack was constructed from
SourceElements ==
    IF stk.op \in {"range", "initializer_list"} THEN stk.other
    ELSE Elements(stk.other)

Min(a, b) == IF a < b THEN a ELSE b

\* a stack constructed from n elements holds the first min(n, Nmax) of them
\* in order, its overflow flag set iff n > Nmax
Constructed ==
    LET n == Len(SourceElements)
    IN  /\ Elements(stk) = SubSeq(SourceElements, 1, Min(n, Nmax))
        /\ stk.overflow_flag = (n > Nmax)

\* C31: a static_stack constructed from n elements (initializer list,
\* iterator range, copy or move from a stack of any capacity) holds the first
\* min(n, Nmax) of them in order with the overflow flag set iff n > Nmax; a
\* copy leaves the source as it was, a move leaves it empty.
C31_Construction ==
    stk.op \in {"range", "initializer_list", "copy", "move"} =>
        /\ Constructed
        /\ stk.op = "copy" => stk.other_after = stk.other
        /\ stk.op = "move" => stk.other_after.current_len = 0

\* the statement of C31 for every construction but the copy from a stack of
\* the same capacity
C31_ConstructionOtherCapacity ==
    (stk.op = "copy" /\ Len(stk.other.element_buffer) = Nmax)
        \/ C31_Construction

\* a move from a larger stack that holds more elements than fit
C31_WitnessMove ==
    /\ stk.op = "move"
    /\ stk.other.current_len > Nmax
    /\ stk.overflow_flag

\* the last handler handled an evt_sub or evt_unsub after the handshake
PeerSubMessage ==
    /\ PostAuthMessage
    /\ last.msg.type \in {"evt_sub", "evt_unsub"}

\* C32: active_outgoing_events is a subset of available_outgoing_events and
\* holds exactly the available names whose most recent evt_sub / evt_unsub
\* was an evt_sub; an evt_sub for an unavailable name and an evt_unsub for a
\* name that is not active change nothing, send nothing and do not close.
C32_ActiveOutgoingTracksPeer ==
    /\ \A r \in Roles :
          /\ link[r].active_outgoing_events
                \subseteq link[r].available_outgoing_events
          /\ link[r].active_outgoing_events =
                sup[r].peer_subscribed
                    \cap link[r].available_outgoing_events
    /\ (PeerSubMessage /\ last.msg.type = "evt_sub"
           /\ last.msg.name \notin last.pre.available_outgoing_events) =>
          LinkUnchanged /\ last.out = <<>> /\ last.close = 0
    /\ (PeerSubMessage /\ last.msg.type = "evt_unsub"
           /\ last.msg.name \notin last.pre.active_outgoing_events) =>
          LinkUnchanged /\ last.out = <<>> /\ last.close = 0

\* the peer subscribes again to an event it had unsubscribed from, and has
\* also asked for a name the link does not offer
C32_Witness ==
    /\ PeerSubMessage
    /\ last.msg.type = "evt_sub"
    /\ last.msg.name \in last.pre.available_outgoing_events
    /\ last.msg.name \notin last.pre.active_outgoing_events
    /\ last.msg.name \in link[last.role].active_outgoing_events
    /\ sup[last.role].inbound = 5
    /\ sup[last.role].peer_subscribed = {last.msg.name}

\* the peer subscribes to a name the link does not offer
C32_WitnessUnavailable ==
    /\ PeerSubMessage
    /\ last.msg.type = "evt_sub"
    /\ last.msg.name \notin last.pre.available_outgoing_events

\* an evt_emit is handled after the handshake
EmitMessage ==
    /\ PostAuthMessage
    /\ last.msg.type = "evt_emit"
    /\ last.msg.wellformed

C33_WitnessUnknown ==
    /\ EmitMessage
    /\ last.msg.name = UnknownName

\* one step of the keepalive of the connection r, seen in the supervisor before
\* and after it: the timers that are set and not yet fired or canceled, the
\* pings sent, and the pings sent since the last pong (unanswered)
KeepaliveStep(r) ==
    /\ sup'[r].pending_timers <= 1
    /\ (sup'[r].m_ping_timer = "pending") <=> (sup'[r].pending_timers = 1)
    /\ sup'[r].pings > sup[r].pings =>
          /\ sup[r].m_ping_timer = "pending"
          /\ sup'[r].m_ping_timer = "none"
          /\ last'.op = "handle_ping_timer"
    /\ (sup'[r].m_ping_timer = "pending" /\ sup[r].m_ping_timer # "pending") =>
          last'.op \in {"on_open", "on_pong_received"}
    /\ sup'[r].unanswered <= 1
    /\ (last'.op = "on_pong_timeout" /\ last'.role = r) =>
          /\ sup'[r].m_communication_canceled
          /\ sup'[r].terminated
          /\ sup'[r].m_ping_timer = "none"
          /\ sup'[r].close_codes = sup[r].close_codes
          /\ last'.out = <<>>

\* C34: at most one ping timer is pending per connection, a ping is sent only
\* by a pending timer that fires, a timer is set only at open or at the receipt
\* of a pong, so that a pong lies between two consecutive pings, and a pong
\* timeout sets the cancel flag and terminates the connection without a close
\* handshake
C34_KeepaliveCycle == [][\A r \in Roles : KeepaliveStep(r)]_vars

\* a second ping has been sent after a pong, and a pong arrived while a timer
\* was pending
C34_Witness ==
    \E r \in Roles :
        /\ sup[r].pings = 2
        /\ sup[r].pongs = 2
        /\ last.op = "on_pong_received"
        /\ sup[r].m_ping_timer = "pending"

\* a pong timeout has terminated the connection
C34_WitnessTimeout ==
    last.op = "on_pong_timeout" /\ sup[last.role].terminated

\* the messages written by the last operation that are neither auth nor
\* auth_ack
RegularTraffic(out) ==
    {i \in DOMAIN out : out[i].type \notin {"auth", "auth_ack"}}

\* C35: a link writes a message other than auth and auth_ack only once its
\* authentication_done flag is set, whatever the user calls during the
\* handshake; a call() before the handshake completes writes no func_call
C35_OnlyHandshakeBeforeAuth ==
    RegularTraffic(last.out) # {} => link[last.role].authentication_done

\* the same for every operation but link::call: emit, the registration and
\* cancellation of listeners and the handling of inbound messages write regular
\* traffic only on an authenticated link
C35_OnlyHandshakeBeforeAuthButCall ==
    (last.op # "call" /\ RegularTraffic(last.out) # {})
        => link[last.role].authentication_done

\* a listener is registered, or the handshake completes with evt_sub to send,
\* and regular traffic follows authentication
C35_WitnessButCall ==
    /\ last.op \in {"add_event_subscription", "on_message"}
    /\ RegularTraffic(last.out) # {}
    /\ link[last.role].authentication_done

\* C36: between two compatible links over FIFO channels whose users make no
\* call, a link handles a message other than auth and auth_ack only when it is
\* authenticated itself - an evt_sub its peer sent on entering Authenticated
\* included - and neither link closes the connection
C36_NoOrderingRace ==
    Compatible =>
        /\ (last.op = "on_message" /\ last.msg.type \notin {"auth", "auth_ack"})
              => last.pre.authentication_done
        /\ \A r \in Roles : sup[r].close_codes = {}

\* an evt_sub of a link that has entered Authenticated is in flight to a link
\* that is still pre-auth
C36_Witness ==
    /\ Compatible
    /\ \E r \in Roles :
          /\ ~link[r].authentication_done
          /\ link[Peer(r)].authentication_done
          /\ \E i \in DOMAIN net[r] : net[r][i].type = "evt_sub"

\* the evt_sub that followed the auth_ack of its sender is handled
C36_WitnessDelivered ==
    /\ Compatible
    /\ last.op = "on_message"
    /\ last.msg.type = "evt_sub"
    /\ Len(sent[Peer(last.role)]) >= 3
    /\ sent[Peer(last.role)][2].type = "auth_ack"
    /\ sent[Peer(last.role)][3].type = "evt_sub"

\* the last operation handled an auth before authentication and one of the
\* handshake checks failed
FailedAuth ==
    /\ last.op = "on_message"
    /\ last.msg.type = "auth"
    /\ last.msg.wellformed
    /\ ~last.pre.authentication_done
    /\ last.close \in {PROTO_VERSION_INCOMPATIBLE, LINK_VERSION_MISMATCH,
                       EVENT_REQUIREMENTS_NOT_SATISFIED,
                       DATA_SOURCE_REQUIREMENTS_NOT_SATISFIED,
                       FUNCTION_REQUIREMENTS_NOT_SATISFIED}

\* the last operation left the handshake flags, the transaction registry, the
\* active sets and the tid counter of its link as they were
HandshakeStateKept ==
    LET L == link[last.role]
    IN  /\ L.auth_ack_sent = last.pre.auth_ack_sent
        /\ L.auth_ack_received = last.pre.auth_ack_received
        /\ L.authentication_done = last.pre.authentication_done
        /\ L.active_transactions = last.pre.active_transactions
        /\ L.active_incoming_events = last.pre.active_incoming_events
        /\ L.active_outgoing_events = last.pre.active_outgoing_events
        /\ L.tid_counter = last.pre.tid_counter

\* C37: an auth that fails a handshake check leaves auth_ack_sent,
\* auth_ack_received, authentication_done, pong_messages_required, the
\* transaction registry, the active sets and the tid counter as they were
C37_FailedAuthKeepsState ==
    FailedAuth =>
        /\ HandshakeStateKept
        /\ link[last.role].pong_messages_required
               = last.pre.pong_messages_required

\* the same without pong_messages_required, and nothing is written
C37_FailedAuthKeepsHandshakeState ==
    FailedAuth => HandshakeStateKept /\ last.out = <<>>

\* an auth with no_ping fails the event or the function check
C37_WitnessNoPing ==
    /\ FailedAuth
    /\ last.msg.no_ping = "true"
    /\ last.close \in {EVENT_REQUIREMENTS_NOT_SATISFIED,
                       FUNCTION_REQUIREMENTS_NOT_SATISFIED}

\* the close codes of the fatal handshake checks
HandshakeFailures ==
    {PROTO_VERSION_INCOMPATIBLE, LINK_VERSION_MISMATCH,
     EVENT_REQUIREMENTS_NOT_SATISFIED, DATA_SOURCE_REQUIREMENTS_NOT_SATISFIED,
     FUNCTION_REQUIREMENTS_NOT_SATISFIED}

\* C38: a link whose connection has been closed for a failed handshake check
\* is not Authenticated and sends no auth_ack, whatever is delivered to it
\* until the transport reports the close
C38_FailedHandshakeIsFinal ==
    \A r \in Roles :
        sup[r].close_codes \cap HandshakeFailures # {}
            => /\ ~link[r].authentication_done
               /\ last.role = r => OfType(last.out, "auth_ack") = <<>>

\* the handshake flags of a link that has failed a handshake check while the
\* message that failed it is the last one handled
C38_FailedHandshakeThenNothing ==
    \A r \in Roles :
        (sup[r].close_codes \cap HandshakeFailures # {} /\ sup[r].late = 0)
            => /\ ~link[r].authentication_done
               /\ last.role = r => OfType(last.out, "auth_ack") = <<>>

\* a message has been handled after the close for a failed handshake check
C38_WitnessLate ==
    \E r \in Roles :
        /\ sup[r].close_codes \cap HandshakeFailures # {}
        /\ sup[r].late > 0
        /\ last.role = r
        /\ last.op = "on_message"

\* a message of the peer whose handling raises an error the supervisor closes
\* the connection for
OnErrorMessage(r) ==
    /\ r \in mode.live /\ ~mode.pair
    /\ sup[r].phase = "open"
    /\ sup[r].inbound < MaxInbound
    /\ sup[r].close_codes = {} \/ sup[r].late < MaxLate
    /\ \E msg \in PeerMessages(r) :
          \E env \in Envs(link[r], msg) :
              /\ close_code_for(link_on_message(link[r], msg, env)) # 0
              /\ on_message(r, msg, env)

\* one connection with its keepalive timer whose link raises errors, while the
\* user calls functions
NextErrorClose ==
    \E r \in Roles :
        \/ OnOpen(r)
        \/ OnHandshakeMessage(r)
        \/ OnErrorMessage(r)
        \/ CallFunction(r)
        \/ HandlePingTimer(r)
        \/ OnClose(r)

SpecErrorClose == Init /\ [][NextErrorClose]_vars

\* the supervisor has closed the connection r for an error of the link and the
\* transport has not reported the close yet
ClosingForError(r) == sup[r].close_codes # {} /\ sup[r].phase = "open"

\* the messages of the last operation are the last ones written to the
\* transport
WroteLast ==
    /\ last.out # <<>>
    /\ Len(sent[last.role]) >= Len(last.out)
    /\ SubSeq(sent[last.role],
              Len(sent[last.role]) - Len(last.out) + 1,
              Len(sent[last.role])) = last.out

\* C39: once the supervisor has closed the connection for an error raised by
\* the link, the connection is canceled: a message the link sends during the
\* closing handshake is not written and no ping is sent
C39_ErrorCloseCancels ==
    \A r \in Roles :
        ClosingForError(r) =>
            /\ sup[r].m_communication_canceled
            /\ last.role = r =>
                  /\ last.op # "handle_ping_timer"
                  /\ last.op = "call" => ~WroteLast

\* a connection closed for an error of its link, with the cancel flag clear
C39_WitnessFlag ==
    \E r \in Roles : ClosingForError(r) /\ ~sup[r].m_communication_canceled

\* a ping is sent on a connection closed for an error of its link
C39_WitnessPing ==
    /\ last.role \in Roles
    /\ ClosingForError(last.role)
    /\ last.op = "handle_ping_timer"

\* a func_call is written on a connection closed for an error of its link
C39_WitnessCall ==
    /\ last.role \in Roles
    /\ ClosingForError(last.role)
    /\ last.pre.authentication_done
    /\ last.op = "call"
    /\ WroteLast

\* case FUNC_CALL of link::handle_message_post_auth on the I/O thread, inside
\* server::on_message: the function handler of the user is called with the
\* guard held
InvokeFunctionHandler(t) ==
    /\ t = "io"
    /\ ctx.pc[t] = "idle"
    /\ ctx.locks[t] = <<TRUE>>
    /\ ctx.cb[t] = "none"
    /\ ctx' = [ctx EXCEPT !.cb[t] = "function"]
    /\ UNCHANGED <<link, sup, sent, net, last, mode, srv, stk>>

\* event_subscription::asio_cb_call_handler on the I/O thread up to the call
\* of the handler copy: lock.unlock() releases the guard first
InvokeListener(t) ==
    /\ t = "io"
    /\ ctx.pc[t] = "idle"
    /\ ctx.locks[t] = <<TRUE>>
    /\ ctx.cb[t] = "none"
    /\ ctx' = [ctx EXCEPT !.locks[t] = <<>>, !.m_holder = "none",
                          !.pc[t] = "unlock", !.cb[t] = "listener"]
    /\ UNCHANGED <<link, sup, sent, net, last, mode, srv, stk>>

\* a user callback that is not inside an external entry calls link::emit,
\* link::call or subscription_hdl::cancel: ct_context::get_lock. In a function
\* handler the thread owns the mutex, and std::mutex::lock by the owner is
\* undefined: the thread blocks for good or lock throws system_error
CallbackEntry(t) ==
    /\ ctx.cb[t] \in {"function", "listener"}
    /\ ctx.pc[t] = "idle"
    /\ ~ctx.fault[t]
    /\ \/ /\ ctx.cb[t] = "listener"
          /\ ctx.locks[t] = <<>>
          /\ ctx' = [ctx EXCEPT !.pc[t] = "lock", !.soft[t] = FALSE]
       \/ /\ ctx.cb[t] = "function"
          /\ ctx.owner = t
          /\ \/ ctx' = [ctx EXCEPT !.pc[t] = "lock", !.soft[t] = FALSE]
             \/ ctx' = [ctx EXCEPT !.fault[t] = TRUE]
    /\ UNCHANGED <<link, sup, sent, net, last, mode, srv, stk>>

\* the user callback returns to the dispatch: asio_cb_call_handler locks the
\* guard again (lock.lock()), the function handler never gave it up
CallbackReturns(t) ==
    /\ ctx.cb[t] \in {"function", "listener"}
    /\ ctx.pc[t] = "idle"
    /\ ctx.cb[t] = "listener" => ctx.locks[t] = <<>>
    /\ ctx' = IF ctx.cb[t] = "listener"
              THEN [ctx EXCEPT !.cb[t] = "after_listener", !.pc[t] = "lock"]
              ELSE [ctx EXCEPT !.cb[t] = "after_function"]
    /\ UNCHANGED <<link, sup, sent, net, last, mode, srv, stk>>

\* the lock object of an external entry goes out of scope at its end
EndEntry(t) ==
    /\ ctx.cb[t] # "function"
    /\ ctx.pc[t] = "idle"
    /\ ctx.locks[t] = <<TRUE>>
    /\ ctx' = [ctx EXCEPT !.locks[t] = <<>>, !.m_holder = "none",
                          !.pc[t] = "unlock",
                          !.cb[t] = IF @ = "listener" THEN @ ELSE "none",
                          !.fault[t] = FALSE]
    /\ UNCHANGED <<link, sup, sent, net, last, mode, srv, stk>>

\* the I/O thread dispatches to user callbacks that call external entries,
\* while user threads call external entries of their own
NextDispatch ==
    \E t \in Threads :
        \/ GetLock(t)
        \/ MutexLock(t)
        \/ SetHolder(t)
        \/ InvokeFunctionHandler(t)
        \/ InvokeListener(t)
        \/ CallbackEntry(t)
        \/ CallbackReturns(t)
        \/ EndEntry(t)
        \/ MutexUnlock(t)

SpecDispatch == Init /\ [][NextDispatch]_vars

\* the thread waits for a guard it owns itself, or its lock has thrown
SelfLocked(t) == (ctx.pc[t] = "lock" /\ ctx.owner = t) \/ ctx.fault[t]

\* C40: a user callback called by a dispatch - an event listener or a function
\* handler - can call emit, call or cancel without the dispatching thread
\* locking itself out on the guard, and the dispatching thread holds the guard
\* once the callback has returned
C40_CallbackMayEnter ==
    \A t \in Threads :
        /\ ~SelfLocked(t)
        /\ (ctx.cb[t] \in {"after_function", "after_listener"}
                /\ ctx.pc[t] = "idle")
              => Holds(t) /\ ctx.owner = t

\* the same for the event listeners called through asio_cb_call_handler
C40_ListenerMayEnter ==
    \A t \in Threads :
        ctx.cb[t] \in {"listener", "after_listener"} =>
            /\ ~SelfLocked(t)
            /\ (ctx.cb[t] = "after_listener" /\ ctx.pc[t] = "idle")
                  => Holds(t) /\ ctx.owner = t

\* a listener has called an external entry and holds the guard inside it
C40_WitnessListener ==
    \E t \in Threads : ctx.cb[t] = "listener" /\ Holds(t)

\* the dispatch holds the guard again after the listener has returned
C40_WitnessAfterListener ==
    \E t \in Threads : ctx.cb[t] = "after_listener" /\ Holds(t)

\* a function handler has called an external entry and waits for the guard
\* its own thread holds
C40_WitnessFunction ==
    \E t \in Threads :
        ctx.cb[t] = "function" /\ ctx.pc[t] = "lock" /\ ctx.owner = t

====
